---- MODULE Spec2Model ----
(***************************************************************************)
(* Model of the trading-signal analytics engine:                           *)
(*   - technical_indicators.py: detect_trend, get_volume_signal_adjustment *)
(*   - symbol_analytics_service.py: __init__, analyze_symbol,              *)
(*     _generate_signal, _interpret_rsi, _interpret_macd, _generate_summary*)
(*   - ml_model_service.py: train, predict, save_model, load_model         *)
(*   - ml_features_service.py: extract_features, get_feature_names         *)
(*   - ml_training_data_service.py: generate_synthetic_data                *)
(*                                                                         *)
(* Number representation.  Python floats are modelled by exact values:     *)
(*   prices, SMAs, Bollinger bands : hundredths (round(x, 2) in the code)  *)
(*   RSI, MACD histogram           : hundredths (round(x, 2) in the code)  *)
(*   volume_ratio                  : hundredths (round(x, 2) in the code)  *)
(*   volatility_20d (unrounded)    : the fraction nearest to the float     *)
(*   performance returns, levels   : hundredths (round(x, 2) in the code)  *)
(*   class-1 probability           : ten-thousandths as the classifier     *)
(*                                   answers, thousandths as reported      *)
(*                                   (round(x, 3) in the code)             *)
(*   model confidence              : tenths (round(x, 1) in the code)      *)
(*   traditional / fused confidence: rationals [n |-> num, d |-> den]      *)
(*   reported confidence           : integer (round(x, 0) in the code)     *)
(* Optional values are sequences: None is <<>>, a present value v is <<v>>.*)
(***************************************************************************)
EXTENDS Integers, Sequences, FiniteSets, TLC

VARIABLES
    model,             \* ml_model_service.model: the in-memory classifier
    feature_names,     \* ml_model_service.feature_names
    params,            \* ml_model_service.params
    metrics,           \* ml_model_service.metrics
    training_history,  \* ml_model_service.training_history
    disk,              \* the blob at ml_model_service.model_path
    train_pc,          \* position of the train call in progress
    train_arg,         \* the training set of the train call in progress
    result,            \* what the last completed top-level call returned
    fn_args,           \* arguments of the pure function under check
    fn_ret,            \* its return value
    ml_enabled         \* symbol_analytics_service.ml_enabled

vars == <<model, feature_names, params, metrics, training_history, disk,
          train_pc, train_arg, result, fn_args, fn_ret, ml_enabled>>

\* the fields of the two services and the stored file
service_vars == <<model, feature_names, params, metrics, training_history,
                  disk, train_pc, train_arg, ml_enabled>>

----------------------------------------------------------------------------
(* Bounds of the model *)

MaxPrice == 3      \* prices and moving averages range over 1..MaxPrice
MaxData == 2       \* distinct training sets that can be passed to train
MaxHistory == 2    \* completed trainings kept apart in training_history
MaxAnalyzeHistory == 1  \* the same, where analyze_symbol is explored
MaxSamples == 3    \* largest num_samples passed to generate_synthetic_data
MaxPrices == 4     \* longest price list passed to calculate_rsi on its own

----------------------------------------------------------------------------
(* Optional values and Python truthiness *)

None == <<>>
Some(v) == <<v>>
IsNone(o) == o = <<>>
Val(o) == o[1]

\* `if x:` for an Optional[float]: None and 0.0 are both falsy
TruthyNum(o) == o # <<>> /\ o[1] # 0

\* `if x:` for an Optional[Dict] whose dict is never empty
TruthyDict(o) == o # <<>>

Abs(x) == IF x < 0 THEN -x ELSE x
Min(a, b) == IF a <= b THEN a ELSE b
Max(a, b) == IF a >= b THEN a ELSE b

(* Rationals with positive denominator *)
Rat(n, d) == [n |-> n, d |-> d]
RatLe(a, b) == a.n * b.d <= b.n * a.d
RatEq(a, b) == a.n * b.d = b.n * a.d
RatMin(a, b) == IF RatLe(a, b) THEN a ELSE b

\* a rounding that drops the fractional part (mutation of PyRound0)
PyRound0_Truncate(q) == q.n \div q.d

\* Python round(x, 0) of a non-negative value: nearest integer, ties to even
PyRound0(q) ==
    LET fl == q.n \div q.d
        rem == q.n % q.d
    IN  IF 2 * rem > q.d THEN fl + 1
        ELSE IF 2 * rem < q.d THEN fl
        ELSE IF fl % 2 = 0 THEN fl ELSE fl + 1

----------------------------------------------------------------------------
(* technical_indicators.get_volume_signal_adjustment *)

\* lines 396-402: the ratio sub-term; the > 1.5 test comes first
VolumeRatioTerm(volume_data) ==
    IF volume_data.volume_ratio > 150 THEN 1
    ELSE IF volume_data.volume_ratio > 200 THEN 2
    ELSE IF volume_data.volume_ratio < 70 THEN -1
    ELSE 0

\* lines 404-412: the price-volume correlation sub-term
VolumeCorrelationTerm(volume_data, price_trend) ==
    IF volume_data.price_volume_correlation = "CONFIRMATORY"
    THEN IF price_trend = "BULLISH" THEN 1
         ELSE IF price_trend = "BEARISH" THEN -1
         ELSE 0
    ELSE IF volume_data.price_volume_correlation = "DIVERGENT" THEN -1
    ELSE 0

\* lines 414-418: the OBV sub-term
VolumeObvTerm(volume_data, price_trend) ==
    IF volume_data.obv > 0 /\ price_trend = "BULLISH" THEN 1
    ELSE IF volume_data.obv < 0 /\ price_trend = "BEARISH" THEN -1
    ELSE 0

\* an adjustment that is not clamped (mutation of CapAdjustment)
CapAdjustment_Unclamped(adjustment) == adjustment

\* line 421: max(-2, min(2, adjustment))
CapAdjustment(adjustment) == Max(-2, Min(2, adjustment))

get_volume_signal_adjustment(volume_data, price_trend) ==
    CapAdjustment(VolumeRatioTerm(volume_data)
                  + VolumeCorrelationTerm(volume_data, price_trend)
                  + VolumeObvTerm(volume_data, price_trend))

----------------------------------------------------------------------------
(* symbol_analytics_service._generate_signal *)

\* lines 155-163
RsiApplied(rsi) == TruthyNum(rsi)
RsiTerm(rsi) ==
    IF ~RsiApplied(rsi) THEN 0
    ELSE IF Val(rsi) < 3000 THEN 2
    ELSE IF Val(rsi) > 7000 THEN -2
    ELSE 0

\* lines 165-171
MacdApplied(macd) == TruthyDict(macd)
MacdTerm(macd) ==
    IF ~MacdApplied(macd) THEN 0
    ELSE IF Val(macd).histogram > 0 THEN 2 ELSE -2

\* lines 173-183
SmaApplied(sma_20, sma_50) == TruthyNum(sma_20) /\ TruthyNum(sma_50)
SmaTerm(current_price, sma_20, sma_50) ==
    IF ~SmaApplied(sma_20, sma_50) THEN 0
    ELSE IF current_price > Val(sma_20) /\ Val(sma_20) > Val(sma_50) THEN 3
    ELSE IF current_price < Val(sma_20) /\ Val(sma_20) < Val(sma_50) THEN -3
    ELSE IF current_price > Val(sma_20) THEN 1
    ELSE IF current_price < Val(sma_20) THEN -1
    ELSE 0

\* lines 185-191
Sma200Applied(sma_200) == TruthyNum(sma_200)
Sma200Term(current_price, sma_200) ==
    IF ~Sma200Applied(sma_200) THEN 0
    ELSE IF current_price > Val(sma_200) THEN 1 ELSE -1

\* lines 193-199
BollingerApplied(bollinger) == TruthyDict(bollinger)
BollingerTerm(current_price, bollinger) ==
    IF ~BollingerApplied(bollinger) THEN 0
    ELSE IF current_price < Val(bollinger).lower THEN 1
    ELSE IF current_price > Val(bollinger).upper THEN -1
    ELSE 0

\* lines 201-205
VolumeApplied(volume_data) == TruthyDict(volume_data)
VolumeTerm(volume_data, trend) ==
    IF ~VolumeApplied(volume_data) THEN 0
    ELSE get_volume_signal_adjustment(Val(volume_data), trend)

\* `score` at line 207
Score(current_price, rsi, macd, sma_20, sma_50, sma_200, bollinger, trend, volume_data) ==
    RsiTerm(rsi) + MacdTerm(macd) + SmaTerm(current_price, sma_20, sma_50)
    + Sma200Term(current_price, sma_200)
    + BollingerTerm(current_price, bollinger)
    + VolumeTerm(volume_data, trend)

\* `max_score` at line 207
MaxScore(rsi, macd, sma_20, sma_50, sma_200, bollinger, volume_data) ==
    (IF RsiApplied(rsi) THEN 2 ELSE 0)
    + (IF MacdApplied(macd) THEN 2 ELSE 0)
    + (IF SmaApplied(sma_20, sma_50) THEN 3 ELSE 0)
    + (IF Sma200Applied(sma_200) THEN 1 ELSE 0)
    + (IF BollingerApplied(bollinger) THEN 1 ELSE 0)
    + (IF VolumeApplied(volume_data) THEN 2 ELSE 0)

\* lines 207-211: the confidence before fusion
TraditionalConfidence(score, max_score) ==
    IF max_score > 0 THEN Rat(Abs(score) * 100, max_score) ELSE Rat(50, 1)

\* lines 213-219: the signal before fusion
TraditionalSignal(score) ==
    IF score >= 3 THEN "BUY"
    ELSE IF score <= -3 THEN "SELL"
    ELSE "HOLD"

\* line 223: `if ml_prediction and ml_prediction.get('signal')`
PredictionUsed(ml_prediction) ==
    ml_prediction # None /\ Val(ml_prediction).signal # ""

\* an agreement without the +10 bonus (mutation of AgreementConfidence)
AgreementConfidence_NoBonus(confidence, ml_confidence) ==
    RatMin(Rat(95, 1),
           Rat(confidence.n * 10 + ml_confidence * confidence.d,
               20 * confidence.d))

\* line 230: min(95, (confidence + ml_confidence) / 2 + 10); ml_confidence
\* is in tenths
AgreementConfidence(confidence, ml_confidence) ==
    RatMin(Rat(95, 1),
           Rat(confidence.n * 10 + ml_confidence * confidence.d
               + 200 * confidence.d,
               20 * confidence.d))

\* an override that starts at exactly 80 (mutation of MlOverrides)
MlOverrides_From80(ml_confidence) == ml_confidence >= 800

\* line 232: ml_confidence > 80
MlOverrides(ml_confidence) == ml_confidence > 800

\* a strategy that tests the override threshold before the agreement
\* (mutation of Fuse)
Fuse_OverrideFirst(signal, confidence, ml_prediction) ==
    IF ~PredictionUsed(ml_prediction)
    THEN [signal |-> signal, confidence |-> confidence, source |-> "TRADITIONAL"]
    ELSE LET ml_signal == Val(ml_prediction).signal
             ml_confidence == Val(ml_prediction).confidence
         IN  IF MlOverrides(ml_confidence)
             THEN [signal |-> ml_signal,
                   confidence |-> Rat(ml_confidence, 10),
                   source |-> "ML_HIGH_CONFIDENCE"]
             ELSE IF signal = ml_signal
             THEN [signal |-> signal,
                   confidence |-> AgreementConfidence(confidence, ml_confidence),
                   source |-> "HYBRID_AGREEMENT"]
             ELSE [signal |-> signal, confidence |-> confidence,
                   source |-> "TRADITIONAL"]

\* lines 221-237: the hybrid strategy
Fuse(signal, confidence, ml_prediction) ==
    IF ~PredictionUsed(ml_prediction)
    THEN [signal |-> signal, confidence |-> confidence, source |-> "TRADITIONAL"]
    ELSE LET ml_signal == Val(ml_prediction).signal
             ml_confidence == Val(ml_prediction).confidence
         IN  IF signal = ml_signal
             THEN [signal |-> signal,
                   confidence |-> AgreementConfidence(confidence, ml_confidence),
                   source |-> "HYBRID_AGREEMENT"]
             ELSE IF MlOverrides(ml_confidence)
             THEN [signal |-> ml_signal,
                   confidence |-> Rat(ml_confidence, 10),
                   source |-> "ML_HIGH_CONFIDENCE"]
             ELSE [signal |-> signal, confidence |-> confidence,
                   source |-> "TRADITIONAL"]

\* lines 239-245: the returned dict; confidence is round(confidence, 0)
generate_signal(current_price, rsi, macd, sma_20, sma_50, sma_200, bollinger, trend, volume_data, ml_prediction) ==
    LET score == Score(current_price, rsi, macd, sma_20, sma_50, sma_200,
                       bollinger, trend, volume_data)
        max_score == MaxScore(rsi, macd, sma_20, sma_50, sma_200, bollinger,
                              volume_data)
        fused == Fuse(TraditionalSignal(score),
                      TraditionalConfidence(score, max_score), ml_prediction)
    IN  [signal |-> fused.signal,
         confidence |-> PyRound0(fused.confidence),
         score |-> score,
         max_score |-> max_score,
         source |-> fused.source]

----------------------------------------------------------------------------
(* ml_model_service.MLModelService *)

\* The classifier object.  data = 0 is Python None; otherwise it is the
\* XGBClassifier built for training set `data`, fitted or not yet fitted.
NoModel == [data |-> 0, fitted |-> FALSE]
Classifier(d, fitted) == [data |-> d, fitted |-> fitted]

\* The feature names the extractor produces (an excerpt of the list in
\* ml_features_service.get_feature_names)
ExtractedNames == <<"rsi_14", "macd_histogram", "volume_ratio">>

\* df.columns.tolist() of training set d: odd sets list the features in the
\* extractor's order, even sets list the same features in another order
ColumnsOf(d) ==
    IF d % 2 = 1 THEN ExtractedNames
    ELSE <<"volume_ratio", "macd_histogram", "rsi_14">>

\* The metrics dict of a training run on set d; importance tells whether
\* metrics['feature_importance'] has been filled in.  data = 0 is {}.
NoMetrics == [data |-> 0, importance |-> FALSE]
MetricsOf(d, importance) == [data |-> d, importance |-> importance]

DefaultParams == "binary:logistic/6/0.1/150/0.8/0.8/42/logloss"

\* The four fields save_model writes and load_model reads
Artifact(m, fnames, prm, mtr) ==
    [model |-> m, feature_names |-> fnames, params |-> prm, metrics |-> mtr]

Live == Artifact(model, feature_names, params, metrics)

\* the fields of a service that has not trained, of one whose train on set d
\* completed, and of one whose fit on set d raised
EmptyLive == Artifact(NoModel, <<>>, DefaultParams, NoMetrics)
TrainedLive(d) ==
    Artifact(Classifier(d, TRUE), ColumnsOf(d), DefaultParams,
             MetricsOf(d, TRUE))
AbortedLive(d) ==
    Artifact(Classifier(d, FALSE), ColumnsOf(d), DefaultParams, NoMetrics)

Range(seq) == {seq[i] : i \in 1..Len(seq)}

\* What the file at model_path holds: nothing (None), or Some(model_data).
\* model_data is the dict joblib.load returns, a function from its keys;
\* Unreadable stands for a file on which joblib.load raises.
ArtifactKeys == {"model", "feature_names", "params", "metrics"}
Unreadable == [unreadable |-> TRUE]
Without(model_data, keys) ==
    [k \in (DOMAIN model_data) \ keys |-> model_data[k]]

\* a 'metrics' entry that is not a dict (None, a string, a list): the print
\* of line 204 raises on it
NonDictMetrics == [not_a_dict |-> TRUE]

\* a load that reports success with no file (mutation of load_model)
load_model_Invents(live, blob) ==
    IF blob = None THEN [ok |-> TRUE, live |-> live]
    ELSE [ok |-> TRUE, live |-> Val(blob)]

\* lines 190-208: load_model on the in-memory fields `live` and the blob
\* `blob`; returns whether it loaded and the fields afterwards.  The fields
\* are assigned one by one inside the try block (lines 198-201), so a dict
\* without 'feature_names' has replaced self.model when the KeyError is
\* caught; 'params' and 'metrics' are read with .get and a default, and a
\* raise in the print of line 204 comes after all four assignments.
load_model(live, blob) ==
    IF blob = None THEN [ok |-> FALSE, live |-> live]
    ELSE LET model_data == Val(blob)
             keys == DOMAIN model_data
         IN  IF model_data = Unreadable \/ "model" \notin keys
             THEN [ok |-> FALSE, live |-> live]
             ELSE IF "feature_names" \notin keys
             THEN [ok |-> FALSE,
                   live |-> [live EXCEPT !.model = model_data.model]]
             ELSE LET loaded ==
                          Artifact(model_data.model, model_data.feature_names,
                                   IF "params" \in keys
                                   THEN model_data.params ELSE live.params,
                                   IF "metrics" \in keys
                                   THEN model_data.metrics ELSE NoMetrics)
                  IN  [ok |-> loaded.metrics # NonDictMetrics,
                       live |-> loaded]

\* lines 136-142: the soft failure of predict
NotTrainedPrediction ==
    [signal |-> "HOLD", confidence |-> 500, probability |-> 500,
     source |-> "ML_NOT_TRAINED", error |-> "Model not trained yet"]

\* a rounding to the next multiple upwards (mutation of RoundTo)
RoundTo_Up(n, d) == (n + d - 1) \div d

\* round(x, k) of a value given as n units of which d make one unit of the
\* result (lines 164-165).  A float is never exactly half-way between two
\* decimals, so the values fed to it avoid the ties.
RoundTo(n, d) == PyRound0(Rat(n, d))

\* lines 151-167: from the class-1 probability (ten-thousandths) to the
\* result; confidence is round(100 p, 1) or round(100 (1 - p), 1) in tenths,
\* probability is round(p, 3) in thousandths
PredictionFromProba(buy_probability) ==
    IF buy_probability > 6000
    THEN [signal |-> "BUY", confidence |-> RoundTo(buy_probability, 10),
          probability |-> RoundTo(buy_probability, 10), source |-> "ML"]
    ELSE IF buy_probability < 4000
    THEN [signal |-> "SELL",
          confidence |-> RoundTo(10000 - buy_probability, 10),
          probability |-> RoundTo(buy_probability, 10), source |-> "ML"]
    ELSE [signal |-> "HOLD", confidence |-> 500,
          probability |-> RoundTo(buy_probability, 10), source |-> "ML"]

\* line 145: pd.DataFrame([features])[self.feature_names] raises KeyError
\* unless every listed name is a key of `features`
ReorderRaises(features, fnames) == ~(Range(fnames) \subseteq features)

\* line 148: predict_proba raises on None, on a classifier that is not
\* fitted, and on columns that are not the ones it was fitted on
PredictProbaRaises(m, fnames) ==
    m = NoModel \/ ~m.fitted \/ ColumnsOf(m.data) # fnames

\* lines 133-167: predict(features) on the in-memory fields `live` and the
\* blob; buy_probability is what the classifier answers when it is asked.
\* Returns the fields afterwards, whether the call raised, and the result.
predict(features, buy_probability, live, blob) ==
    LET loaded == IF live.model = NoModel THEN load_model(live, blob)
                  ELSE [ok |-> TRUE, live |-> live]
        now == loaded.live
    IN  IF ~loaded.ok
        THEN [live |-> now, raised |-> FALSE, value |-> NotTrainedPrediction]
        ELSE IF ReorderRaises(features, now.feature_names)
                \/ PredictProbaRaises(now.model, now.feature_names)
        THEN [live |-> now, raised |-> TRUE, value |-> NotTrainedPrediction]
        ELSE [live |-> now, raised |-> FALSE,
              value |-> PredictionFromProba(buy_probability)]

----------------------------------------------------------------------------
(* technical_indicators, as analyze_symbol uses them.  A candle sequence is
   represented by its length and by the values the arithmetic of each
   indicator yields on it; the operators below add the length checks that
   make an indicator absent. *)

\* round(x, 2) of n/d hundredths, for either sign (ties do not occur)
RoundSigned(n, d) ==
    IF n >= 0 THEN PyRound0(Rat(n, d)) ELSE -PyRound0(Rat(-n, d))

\* lines 20-21 and 41: None below period + 1 prices, else the RSI value
\* (periods 14 and 7 are the ones the code asks for)
calculate_rsi(candles, period) ==
    IF candles.len < period + 1 THEN None
    ELSE IF period = 7 THEN Some(candles.rsi_7)
    ELSE Some(candles.rsi)

\* an average that is answered one price short of its period (mutation of
\* calculate_sma)
calculate_sma_OneShort(candles, period) ==
    IF candles.len < period - 1 THEN None
    ELSE IF period = 20 THEN Some(candles.sma_20)
    ELSE IF period = 50 THEN Some(candles.sma_50)
    ELSE Some(candles.sma_200)

\* lines 55-58: None below `period` prices, else the mean of the last ones
calculate_sma(candles, period) ==
    IF candles.len < period THEN None
    ELSE IF period = 20 THEN Some(candles.sma_20)
    ELSE IF period = 50 THEN Some(candles.sma_50)
    ELSE Some(candles.sma_200)

\* lines 72-81: None below `period` prices, else the EMA (periods 12, 26)
calculate_ema(candles, period) ==
    IF candles.len < period THEN None
    ELSE IF period = 12 THEN Some(candles.ema_12)
    ELSE Some(candles.ema_26)

\* lines 94-117: None below 26 prices, else the MACD dict; the signal line
\* is 0.8 times the MACD line
calculate_macd(candles) ==
    IF candles.len < 26 THEN None
    ELSE LET ema_12 == calculate_ema(candles, 12)
             ema_26 == calculate_ema(candles, 26)
         IN  IF ema_12 = None \/ ema_26 = None THEN None
             ELSE LET macd_line == Val(ema_12) - Val(ema_26)
                  IN  Some([macd_line |-> macd_line,
                            signal_line |-> RoundSigned(8 * macd_line, 10),
                            histogram |-> RoundSigned(2 * macd_line, 10)])

\* lines 132-146: None below 20 prices, else the bands
calculate_bollinger_bands(candles) ==
    IF candles.len < 20 THEN None
    ELSE Some([lower |-> candles.lower, middle |-> candles.sma_20,
               upper |-> candles.upper])

\* lines 292-300 and 337-344: the neutral dict below 20 candles
analyze_volume(candles) ==
    IF candles.len < 20
    THEN [avg_volume |-> 0, current_volume |-> 0, volume_ratio |-> 100,
          trend |-> "STABLE", obv |-> 0,
          price_volume_correlation |-> "NEUTRAL"]
    ELSE candles.volume

\* lines 229-272: detect_trend(prices, sma_20, sma_50, sma_200); sma_200 is
\* optional and only the last price is read
\* a score without the SMA20 against SMA50 term (mutation of TrendScore)
TrendScore_NoAlignment(current_price, sma_20, sma_50, sma_200) ==
    (IF current_price > sma_20 THEN 1 ELSE -1)
    + (IF current_price > sma_50 THEN 1 ELSE -1)
    + (IF TruthyNum(sma_200) /\ current_price > Val(sma_200) THEN 1
       ELSE IF TruthyNum(sma_200) THEN -1 ELSE 0)
    + (IF TruthyNum(sma_200) /\ sma_50 > Val(sma_200) THEN 1
       ELSE IF TruthyNum(sma_200) THEN -1 ELSE 0)

\* a score in which a comparison of equal operands counts 0 (mutation of
\* TrendScore)
TrendScore_TieIsZero(current_price, sma_20, sma_50, sma_200) ==
    (IF current_price > sma_20 THEN 1
     ELSE IF current_price = sma_20 THEN 0 ELSE -1)
    + (IF current_price > sma_50 THEN 1
       ELSE IF current_price = sma_50 THEN 0 ELSE -1)
    + (IF TruthyNum(sma_200) /\ current_price > Val(sma_200) THEN 1
       ELSE IF TruthyNum(sma_200) THEN -1 ELSE 0)
    + (IF sma_20 > sma_50 THEN 1 ELSE IF sma_20 = sma_50 THEN 0 ELSE -1)
    + (IF TruthyNum(sma_200) /\ sma_50 > Val(sma_200) THEN 1
       ELSE IF TruthyNum(sma_200) THEN -1 ELSE 0)

TrendScore(current_price, sma_20, sma_50, sma_200) ==
    (IF current_price > sma_20 THEN 1 ELSE -1)
    + (IF current_price > sma_50 THEN 1 ELSE -1)
    + (IF TruthyNum(sma_200) /\ current_price > Val(sma_200) THEN 1
       ELSE IF TruthyNum(sma_200) THEN -1 ELSE 0)
    + (IF sma_20 > sma_50 THEN 1 ELSE -1)
    + (IF TruthyNum(sma_200) /\ sma_50 > Val(sma_200) THEN 1
       ELSE IF TruthyNum(sma_200) THEN -1 ELSE 0)

detect_trend(prices, sma_20, sma_50, sma_200) ==
    IF prices = <<>> THEN [trend |-> "NEUTRAL", strength |-> "WEAK"]
    ELSE LET score == TrendScore(prices[Len(prices)], sma_20, sma_50, sma_200)
         IN  IF score >= 3 THEN [trend |-> "BULLISH", strength |-> "STRONG"]
             ELSE IF score >= 1
             THEN [trend |-> "BULLISH", strength |-> "MODERATE"]
             ELSE IF score <= -3
             THEN [trend |-> "BEARISH", strength |-> "STRONG"]
             ELSE IF score <= -1
             THEN [trend |-> "BEARISH", strength |-> "MODERATE"]
             ELSE [trend |-> "NEUTRAL", strength |-> "WEAK"]

\* Python `x or default` for an Optional[float]
OrElse(o, default) == IF TruthyNum(o) THEN Val(o) ELSE default

----------------------------------------------------------------------------
(* ml_features_service.extract_features.  A feature value is an exact    *)
(* rational in the feature's own unit; the dict is a function from names. *)

Num(n) == Rat(n, 1)
Hundredths(n) == Rat(n, 100)
Flag(b) == IF b THEN Rat(1, 1) ELSE Rat(0, 1)

\* lines 37-40: the i-th close, high and low of the sequence (hundredths)
CloseAt(candles, i) ==
    IF candles.shape = "rising" THEN (100 + (i - 1)) * 100
    ELSE IF candles.shape = "falling" THEN (1000 - (i - 1)) * 100
    ELSE IF candles.shape = "flat" THEN 10000
    ELSE IF candles.shape = "zigzag"
    THEN (100 + 3 * ((i + 1) \div 2) - 2 * (i \div 2)) * 100
    ELSE IF candles.shape = "dip"
    THEN (100 + (i - 1) - (IF i = candles.len THEN 30 ELSE 0)) * 100
    ELSE (1000 - (i - 1) + (IF i = candles.len THEN 40 ELSE 0)) * 100
HighAt(candles, i) == CloseAt(candles, i) + 100
LowAt(candles, i) == CloseAt(candles, i) - 100

\* Python `prices[-k]`
FromEnd(candles, k) == candles.len - k + 1

\* lines 127-131: _calc_return(close_prices, days_ago), which reads
\* prices[-days_ago]
calc_return(candles, days_ago) ==
    IF candles.len <= days_ago THEN Num(0)
    ELSE LET last == CloseAt(candles, FromEnd(candles, 1))
             earlier == CloseAt(candles, FromEnd(candles, days_ago))
         IN  Rat((last - earlier) * 100, earlier)

\* lines 133-137, on high_prices[-10:] of at least 20 candles
detect_higher_highs(candles) ==
    /\ HighAt(candles, FromEnd(candles, 1)) > HighAt(candles, FromEnd(candles, 2))
    /\ HighAt(candles, FromEnd(candles, 2)) > HighAt(candles, FromEnd(candles, 3))

\* lines 139-143, on low_prices[-10:] of at least 20 candles
detect_lower_lows(candles) ==
    /\ LowAt(candles, FromEnd(candles, 1)) < LowAt(candles, FromEnd(candles, 2))
    /\ LowAt(candles, FromEnd(candles, 2)) < LowAt(candles, FromEnd(candles, 3))

\* lines 145-169
get_feature_names ==
    <<"price_change_1d", "price_change_5d", "price_change_10d",
      "price_change_20d", "rsi_14", "rsi_7", "rsi_diff", "macd_line",
      "macd_signal", "macd_histogram", "macd_positive", "sma_20", "sma_50",
      "sma_200", "price_vs_sma20", "price_vs_sma50", "price_vs_sma200",
      "sma20_above_sma50", "sma50_above_sma200", "bb_width", "bb_position",
      "bb_squeeze", "volume_ratio", "volume_trend_inc", "volume_trend_dec",
      "volume_confirmatory", "volume_divergent", "volatility_20d",
      "hl_range", "trend_bullish", "trend_bearish", "trend_strong",
      "higher_highs", "lower_lows">>

\* line 32: the empty dict
EmptyFeatures == [name \in {} |-> Num(0)]

\* line 91 divides by bb['upper'] - bb['lower']: ZeroDivisionError when the
\* two bands are equal
ExtractRaises(candles) ==
    /\ candles.len >= 20
    /\ Val(calculate_bollinger_bands(candles)).upper
       = Val(calculate_bollinger_bands(candles)).lower

\* lines 34-125: the dict built when nothing raises
FeaturesOf(candles) ==
    LET current_price == candles.close
        rsi_14 == calculate_rsi(candles, 14)
        rsi_7 == calculate_rsi(candles, 7)
        macd == calculate_macd(candles)
        sma_20 == OrElse(calculate_sma(candles, 20), current_price)
        sma_50 == OrElse(calculate_sma(candles, 50), current_price)
        sma_200 == OrElse(calculate_sma(candles, 200), current_price)
        bb == calculate_bollinger_bands(candles)
        bb_width_lt_10 ==
            (Val(bb).upper - Val(bb).lower) * 100 < 10 * Val(bb).middle
        vol_data == analyze_volume(candles)
        trend_data == detect_trend(<<current_price>>, sma_20, sma_50,
                                   Some(sma_200))
        last == FromEnd(candles, 1)
    IN  [price_change_1d |-> calc_return(candles, 1),
         price_change_5d |-> calc_return(candles, 5),
         price_change_10d |-> calc_return(candles, 10),
         price_change_20d |-> calc_return(candles, 20),
         rsi_14 |-> IF TruthyNum(rsi_14) THEN Hundredths(Val(rsi_14))
                    ELSE Num(50),
         rsi_7 |-> IF TruthyNum(rsi_7) THEN Hundredths(Val(rsi_7))
                   ELSE Num(50),
         rsi_diff |-> IF TruthyNum(rsi_14) /\ TruthyNum(rsi_7)
                      THEN Hundredths(Val(rsi_14) - Val(rsi_7))
                      ELSE Num(0),
         macd_line |-> IF TruthyDict(macd)
                       THEN Hundredths(Val(macd).macd_line) ELSE Num(0),
         macd_signal |-> IF TruthyDict(macd)
                         THEN Hundredths(Val(macd).signal_line) ELSE Num(0),
         macd_histogram |-> IF TruthyDict(macd)
                            THEN Hundredths(Val(macd).histogram) ELSE Num(0),
         macd_positive |-> Flag(TruthyDict(macd) /\ Val(macd).histogram > 0),
         sma_20 |-> Hundredths(sma_20),
         sma_50 |-> Hundredths(sma_50),
         sma_200 |-> Hundredths(sma_200),
         price_vs_sma20 |-> Rat((current_price - sma_20) * 100, sma_20),
         price_vs_sma50 |-> Rat((current_price - sma_50) * 100, sma_50),
         price_vs_sma200 |-> Rat((current_price - sma_200) * 100, sma_200),
         sma20_above_sma50 |-> Flag(sma_20 > sma_50),
         sma50_above_sma200 |-> Flag(sma_50 > sma_200),
         bb_width |-> IF TruthyDict(bb)
                      THEN Rat((Val(bb).upper - Val(bb).lower) * 100,
                               Val(bb).middle)
                      ELSE Num(20),
         bb_position |-> IF TruthyDict(bb)
                         THEN Rat((current_price - Val(bb).lower) * 100,
                                  Val(bb).upper - Val(bb).lower)
                         ELSE Num(50),
         bb_squeeze |-> Flag(TruthyDict(bb) /\ bb_width_lt_10),
         volume_ratio |-> Hundredths(vol_data.volume_ratio),
         volume_trend_inc |-> Flag(vol_data.trend = "INCREASING"),
         volume_trend_dec |-> Flag(vol_data.trend = "DECREASING"),
         volume_confirmatory |->
             Flag(vol_data.price_volume_correlation = "CONFIRMATORY"),
         volume_divergent |->
             Flag(vol_data.price_volume_correlation = "DIVERGENT"),
         volatility_20d |-> candles.volatility_20d,
         hl_range |-> Rat((HighAt(candles, last) - LowAt(candles, last)) * 100,
                          CloseAt(candles, last)),
         trend_bullish |-> Flag(trend_data.trend = "BULLISH"),
         trend_bearish |-> Flag(trend_data.trend = "BEARISH"),
         trend_strong |-> Flag(trend_data.strength = "STRONG"),
         higher_highs |-> Flag(detect_higher_highs(candles)),
         lower_lows |-> Flag(detect_lower_lows(candles))]

\* lines 21-125: extract_features(candles); `raised` tells that the call
\* raised instead of returning `value`
extract_features(candles) ==
    IF candles.len < 20 THEN [raised |-> FALSE, value |-> EmptyFeatures]
    ELSE IF ExtractRaises(candles)
    THEN [raised |-> TRUE, value |-> EmptyFeatures]
    ELSE [raised |-> FALSE, value |-> FeaturesOf(candles)]

----------------------------------------------------------------------------
(* symbol_analytics_service.analyze_symbol *)

\* a guard that lets 19 candles through (mutation of TooFewCandles)
TooFewCandles_Below19(candles) == candles.len < 19

\* line 51: `if not candles or len(candles) < 20`
TooFewCandles(candles) == candles.len < 20

\* lines 52-56
InsufficientData(candles) ==
    [error |-> "Insufficient data for analysis", min_required |-> 20,
     received |-> candles.len]

\* technical_indicators.calculate_performance_metrics; the dict is a
\* function from labels to hundredths of a percent or of a price.
\* lines 200-204: the labels in the order they are tried
ReturnLabels ==
    {"week_return", "month_return", "quarter_return", "half_year_return",
     "year_return"}

DaysAgo(label) ==
    CASE label = "week_return" -> 5
      [] label = "month_return" -> 20
      [] label = "quarter_return" -> 60
      [] label = "half_year_return" -> 120
      [] label = "year_return" -> 250

\* lines 195-198: old_price is candles[-days_ago]['close']
PerformanceReturn(candles, days_ago) ==
    LET current_price == CloseAt(candles, FromEnd(candles, 1))
        old_price == CloseAt(candles, FromEnd(candles, days_ago))
    IN  RoundSigned((current_price - old_price) * 10000, old_price)

\* lines 207-210: the extremes of candles[-250:]
YearHigh(candles) ==
    CHOOSE h \in {HighAt(candles, i) : i \in FromEnd(candles, 250)..candles.len} :
        \A i \in FromEnd(candles, 250)..candles.len : HighAt(candles, i) <= h
YearLow(candles) ==
    CHOOSE l \in {LowAt(candles, i) : i \in FromEnd(candles, 250)..candles.len} :
        \A i \in FromEnd(candles, 250)..candles.len : LowAt(candles, i) >= l

\* lines 187-212
calculate_performance_metrics(candles) ==
    LET reported ==
            IF candles.len < 2 THEN {}
            ELSE {label \in ReturnLabels : candles.len > DaysAgo(label)}
                 \cup (IF candles.len >= 250
                       THEN {"week_52_high", "week_52_low"} ELSE {})
    IN  [label \in reported |->
            IF label = "week_52_high" THEN YearHigh(candles)
            ELSE IF label = "week_52_low" THEN YearLow(candles)
            ELSE PerformanceReturn(candles, DaysAgo(label))]

\* technical_indicators lines 149-172: find_support_resistance; the extremes
\* of the last 50 candles are the sequence's support and resistance values
find_support_resistance(candles) ==
    IF candles.len < 10 THEN [support |-> 0, resistance |-> 0]
    ELSE [support |-> candles.support, resistance |-> candles.resistance]

\* symbol_analytics_service lines 247-258: _interpret_rsi (hundredths)
interpret_rsi(rsi) ==
    IF rsi > 7000 THEN "Overbought"
    ELSE IF rsi < 3000 THEN "Oversold"
    ELSE IF 4500 <= rsi /\ rsi <= 5500 THEN "Neutral"
    ELSE IF rsi > 5500 THEN "Slightly Overbought"
    ELSE "Slightly Oversold"

\* lines 260-267: _interpret_macd
interpret_macd(macd) ==
    IF macd.histogram > 0 THEN "Bullish Crossover"
    ELSE IF macd.histogram < 0 THEN "Bearish Crossover"
    ELSE "Neutral"

\* strength.lower()
Lower(strength) ==
    CASE strength = "STRONG" -> "strong"
      [] strength = "MODERATE" -> "moderate"
      [] strength = "WEAK" -> "weak"

\* lines 269-309: _generate_summary(signal, trend_data, rsi, volume_data)
generate_summary(signal, trend_data, rsi, volume_data) ==
    LET trend == trend_data.trend
        strength == Lower(trend_data.strength)
        rsi_text ==
            IF TruthyNum(rsi) /\ Val(rsi) > 7000
            THEN ", but showing overbought conditions"
            ELSE IF TruthyNum(rsi) /\ Val(rsi) < 3000
            THEN ", showing oversold conditions"
            ELSE ""
        volume_text ==
            IF volume_data = None THEN ""
            ELSE IF Val(volume_data).volume_ratio > 150
            THEN " High volume confirms the move."
            ELSE IF Val(volume_data).volume_ratio < 70
            THEN " Low volume suggests caution."
            ELSE IF Val(volume_data).price_volume_correlation = "DIVERGENT"
            THEN " Volume not confirming price action."
            ELSE ""
        tail == rsi_text \o "." \o volume_text
    IN  IF signal = "BUY" /\ trend = "BULLISH"
        THEN "Strong buy signal detected. Stock is in a " \o strength
             \o " bullish trend" \o tail \o " Good entry opportunity."
        ELSE IF signal = "BUY" /\ trend = "BEARISH"
        THEN "Buy signal detected despite bearish trend. "
             \o "Potential reversal forming" \o tail
             \o " Exercise caution."
        ELSE IF signal = "BUY" /\ trend = "NEUTRAL"
        THEN "Buy signal detected. Stock showing bullish momentum" \o tail
             \o " Monitor for trend confirmation."
        ELSE IF signal = "SELL" /\ trend = "BULLISH"
        THEN "Sell signal detected despite bullish trend. "
             \o "Consider profit booking" \o tail
             \o " Watch for reversal signs."
        ELSE IF signal = "SELL" /\ trend = "BEARISH"
        THEN "Strong sell signal. Stock in " \o strength
             \o " bearish trend" \o tail \o " Exit recommended."
        ELSE IF signal = "SELL" /\ trend = "NEUTRAL"
        THEN "Sell signal detected. Bearish momentum developing" \o tail
             \o " Consider reducing positions."
        ELSE IF signal = "HOLD" /\ trend = "BULLISH"
        THEN "Hold recommended. Stock in " \o strength
             \o " bullish trend" \o tail \o " Wait for better entry."
        ELSE IF signal = "HOLD" /\ trend = "BEARISH"
        THEN "Hold position. Stock in " \o strength \o " bearish trend"
             \o tail \o " Avoid fresh buying."
        ELSE IF signal = "HOLD" /\ trend = "NEUTRAL"
        THEN "Neutral stance. No clear trend" \o tail
             \o " Wait for clearer signals before action."
        ELSE "Insufficient data for summary."

\* lines 82-90: the prediction, None when it is disabled or anything raised
MlPrediction(candles, buy_probability, live, blob) ==
    IF ~ml_enabled THEN [live |-> live, value |-> None]
    ELSE LET extracted == extract_features(candles)
             r == predict(DOMAIN extracted.value, buy_probability, live, blob)
         IN  IF extracted.raised THEN [live |-> live, value |-> None]
             ELSE [live |-> r.live,
                   value |-> IF r.raised THEN None ELSE Some(r.value)]

\* lines 35-131: analyze_symbol(candles) on the in-memory fields `live` and
\* the blob.  Returns the fields afterwards, the report, the dict
\* _generate_signal returned, and the collaborators that were called.
analyze_symbol(candles, buy_probability, live, blob) ==
    IF TooFewCandles(candles)
    THEN [live |-> live, report |-> InsufficientData(candles),
          signal_data |-> None, calls |-> <<>>]
    ELSE LET current_price == candles.close
             rsi == calculate_rsi(candles, 14)
             macd == calculate_macd(candles)
             sma_20 == calculate_sma(candles, 20)
             sma_50 == calculate_sma(candles, 50)
             sma_200 == calculate_sma(candles, 200)
             bollinger == calculate_bollinger_bands(candles)
             trend_data == detect_trend(<<current_price>>,
                                        OrElse(sma_20, current_price),
                                        OrElse(sma_50, current_price),
                                        sma_200)
             volume_data == analyze_volume(candles)
             ml == MlPrediction(candles, buy_probability, live, blob)
             signal_data == generate_signal(current_price, rsi, macd, sma_20,
                                            sma_50, sma_200, bollinger,
                                            trend_data.trend,
                                            Some(volume_data), ml.value)
         IN  [live |-> ml.live,
              report |->
                  [signal |-> signal_data.signal,
                   confidence |-> signal_data.confidence,
                   trend |-> trend_data.trend,
                   strength |-> trend_data.strength,
                   current_price |-> current_price,
                   indicators |->
                       [rsi |-> rsi,
                        rsi_interpretation |->
                            IF TruthyNum(rsi) THEN interpret_rsi(Val(rsi))
                            ELSE "N/A",
                        macd |-> macd,
                        macd_signal |->
                            IF macd # None THEN interpret_macd(Val(macd))
                            ELSE "N/A",
                        sma_20 |-> sma_20, sma_50 |-> sma_50,
                        sma_200 |-> sma_200,
                        bollinger_bands |-> bollinger],
                   volume |-> volume_data,
                   levels |-> find_support_resistance(candles),
                   performance |-> calculate_performance_metrics(candles),
                   summary |-> generate_summary(signal_data.signal,
                                                trend_data, rsi,
                                                Some(volume_data)),
                   ml_prediction |-> ml.value,
                   signal_source |-> signal_data.source],
              signal_data |-> Some(signal_data),
              calls |-> IF ~ml_enabled THEN <<"indicators">>
                        ELSE IF extract_features(candles).raised
                        THEN <<"indicators", "extract_features">>
                        ELSE <<"indicators", "extract_features", "predict">>]

----------------------------------------------------------------------------
(* The service as a state machine.  train is taken one attribute write at a
   time, so that a request handled by another thread can run between two of
   its writes; the other calls are atomic.  `result` holds what a call
   returned until Respond hands it to the caller. *)

NoResult == [op |-> "none"]

\* len(training_data) of the sets passed to train
ExampleCounts == {0, 99, 100}

\* the class-1 probabilities a fitted classifier answers with
ProbValues == {1000, 3990, 4000, 5000, 6000, 6010, 8000, 8012, 9000}

\* the feature dicts passed to predict: extract_features' output for at
\* least 20 candles, and its {} for fewer
ExtractedFeatures == Range(ExtractedNames)
FeatureDicts == {ExtractedFeatures, {}}

InitService ==
    /\ model = NoModel
    /\ feature_names = <<>>
    /\ params = DefaultParams
    /\ metrics = NoMetrics
    /\ training_history = <<>>
    /\ disk = None
    /\ train_pc = "idle"
    /\ train_arg = 0
    /\ ml_enabled = TRUE

SetLive(a) ==
    /\ model' = a.model
    /\ feature_names' = a.feature_names
    /\ params' = a.params
    /\ metrics' = a.metrics

\* lines 169-188: save_model; `written` is whether joblib.dump succeeded
save_model(written) == IF written THEN Some(Live) ELSE disk

\* a size check that lets 99 examples through (mutation of TooFewExamples)
TooFewExamples_Below99(n) == n < 99

\* train, line 47: `if len(training_data) < 100`
TooFewExamples(n) == n < 100

\* train, lines 47-63: the size check, self.feature_names = df.columns,
\* and train_test_split, which raises for a set it cannot stratify.  A
\* result produced here records len(training_data) as `examples`.
TrainStartUpTo(limit, d, n, split_raises) ==
    /\ result = NoResult
    /\ train_pc = "idle"
    /\ Len(training_history) < limit
    /\ IF TooFewExamples(n)
       THEN /\ result' = [op |-> "train", raised |-> FALSE, success |-> FALSE,
                          data |-> d, examples |-> n,
                          error |-> "Insufficient training data"]
            /\ UNCHANGED service_vars
       ELSE /\ feature_names' = ColumnsOf(d)
            /\ IF split_raises
               THEN /\ result' = [op |-> "train", raised |-> TRUE,
                                  success |-> FALSE, data |-> d,
                                  examples |-> n]
                    /\ UNCHANGED <<train_pc, train_arg>>
               ELSE /\ train_pc' = "construct"
                    /\ train_arg' = d
                    /\ UNCHANGED result
            /\ UNCHANGED <<model, params, metrics, training_history, disk>>
    /\ UNCHANGED <<fn_args, fn_ret, ml_enabled>>

TrainStart(d, n, split_raises) ==
    TrainStartUpTo(MaxHistory, d, n, split_raises)

\* train, line 69: self.model = xgb.XGBClassifier(**self.params)
TrainConstruct ==
    /\ result = NoResult
    /\ train_pc = "construct"
    /\ model' = Classifier(train_arg, FALSE)
    /\ train_pc' = "fit"
    /\ UNCHANGED <<feature_names, params, metrics, training_history, disk,
                   train_arg, result, fn_args, fn_ret, ml_enabled>>

\* train has no try block: an exception raised by one of its lines ends the
\* call there, with the fields as the lines before it left them
TrainRaises ==
    /\ result' = [op |-> "train", raised |-> TRUE, success |-> FALSE,
                  data |-> train_arg]
    /\ train_pc' = "idle"
    /\ train_arg' = 0

\* train, lines 72-76: self.model.fit(...) is called on what self.model
\* holds at that moment.  On None it raises AttributeError; a classifier,
\* the one line 69 built or one a load has put in its place since, is
\* fitted in place on X_train of the set being trained, or fit raises.
TrainFit(fit_raises) ==
    /\ result = NoResult
    /\ train_pc = "fit"
    /\ IF fit_raises \/ model = NoModel
       THEN /\ TrainRaises
            /\ UNCHANGED model
       ELSE /\ model' = Classifier(train_arg, TRUE)
            /\ train_pc' = "evaluate"
            /\ UNCHANGED <<train_arg, result>>
    /\ UNCHANGED <<feature_names, params, metrics, training_history, disk,
                   fn_args, fn_ret, ml_enabled>>

\* train, lines 79-80: self.model.predict(X_test) and predict_proba(X_test)
\* raise on None, on a classifier that is not fitted, and on one fitted on
\* other columns than those of the set being trained
EvaluateRaises == PredictProbaRaises(model, ColumnsOf(train_arg))

\* train, lines 78-91: the evaluation on X_test, then
\* self.metrics = {accuracy, ..., timestamp}
TrainEvaluate ==
    /\ result = NoResult
    /\ train_pc = "evaluate"
    /\ IF EvaluateRaises
       THEN /\ TrainRaises
            /\ UNCHANGED metrics
       ELSE /\ metrics' = MetricsOf(train_arg, FALSE)
            /\ train_pc' = "importance"
            /\ UNCHANGED <<train_arg, result>>
    /\ UNCHANGED <<model, feature_names, params, training_history, disk,
                   fn_args, fn_ret, ml_enabled>>

\* train, lines 94-100: self.model.feature_importances_ raises on None and
\* on a classifier that is not fitted; the item assignment of line 98
\* raises when self.metrics is not a dict
ImportanceRaises ==
    model = NoModel \/ ~model.fitted \/ metrics = NonDictMetrics

\* train, lines 93-100: self.metrics['feature_importance'] = ...
TrainImportance ==
    /\ result = NoResult
    /\ train_pc = "importance"
    /\ IF ImportanceRaises
       THEN /\ TrainRaises
            /\ UNCHANGED metrics
       ELSE /\ metrics' = [metrics EXCEPT !.importance = TRUE]
            /\ train_pc' = "save"
            /\ UNCHANGED <<train_arg, result>>
    /\ UNCHANGED <<model, feature_names, params, training_history, disk,
                   fn_args, fn_ret, ml_enabled>>

\* train, lines 102-103: self.save_model(), its return value dropped
TrainSave(written) ==
    /\ result = NoResult
    /\ train_pc = "save"
    /\ disk' = save_model(written)
    /\ train_pc' = "history"
    /\ UNCHANGED <<model, feature_names, params, metrics, training_history,
                   train_arg, result, fn_args, fn_ret, ml_enabled>>

\* train, line 109: self.metrics['accuracy'] raises KeyError on a dict
\* without that key ({} or one holding feature_importance only) and
\* TypeError on a value that is not a dict
AccuracyRaises == metrics = NonDictMetrics \/ metrics.data = 0

\* train, lines 105-116: the history entry, the prints, the success result
TrainFinish ==
    /\ result = NoResult
    /\ train_pc = "history"
    /\ training_history' = Append(training_history, metrics)
    /\ IF AccuracyRaises
       THEN TrainRaises
       ELSE /\ result' = [op |-> "train", raised |-> FALSE, success |-> TRUE,
                          data |-> train_arg, metrics |-> metrics]
            /\ train_pc' = "idle"
            /\ train_arg' = 0
    /\ UNCHANGED <<model, feature_names, params, metrics, disk, fn_args,
                   fn_ret, ml_enabled>>

\* save_model called on its own (the training endpoint and the standalone
\* script call it after train has returned)
Save(written) ==
    /\ result = NoResult
    /\ train_pc = "idle"
    /\ disk' = save_model(written)
    /\ result' = [op |-> "save", ok |-> written]
    /\ UNCHANGED <<model, feature_names, params, metrics, training_history,
                   train_pc, train_arg, fn_args, fn_ret, ml_enabled>>

\* load_model called on its own (the constructor of the analytics service,
\* the metrics and status endpoints)
Load ==
    /\ result = NoResult
    /\ LET r == load_model(Live, disk)
       IN  /\ SetLive(r.live)
           /\ result' = [op |-> "load", ok |-> r.ok]
    /\ UNCHANGED <<training_history, disk, train_pc, train_arg, fn_args,
                   fn_ret, ml_enabled>>

\* predict(features)
Predict(features, buy_probability) ==
    /\ result = NoResult
    /\ LET r == predict(features, buy_probability, Live, disk)
       IN  /\ SetLive(r.live)
           /\ result' = [op |-> "predict", raised |-> r.raised,
                         value |-> r.value]
    /\ UNCHANGED <<training_history, disk, train_pc, train_arg, fn_args,
                   fn_ret, ml_enabled>>

\* get_metrics(), lines 210-212: returns self.metrics
GetMetrics ==
    /\ result = NoResult
    /\ result' = [op |-> "get_metrics", value |-> metrics]
    /\ UNCHANGED <<service_vars, fn_args, fn_ret>>

\* the status endpoint, ml_training.py lines 124-140: get_metrics() is read
\* first, then `model is not None or load_model()`, then metrics.get(...),
\* which raises when what get_metrics returned is not a dict; the except
\* branch answers is_trained False with the error
GetStatus ==
    /\ result = NoResult
    /\ LET r == IF model # NoModel THEN [ok |-> TRUE, live |-> Live]
                ELSE load_model(Live, disk)
       IN  /\ SetLive(r.live)
           /\ result' = IF metrics = NonDictMetrics
                        THEN [op |-> "status", is_trained |-> FALSE,
                              error |-> "object has no attribute 'get'"]
                        ELSE [op |-> "status", is_trained |-> r.ok,
                              value |-> metrics]
    /\ UNCHANGED <<training_history, disk, train_pc, train_arg, fn_args,
                   fn_ret, ml_enabled>>

\* the caller takes what the call returned
Respond ==
    /\ result # NoResult
    /\ result' = NoResult
    /\ UNCHANGED <<service_vars, fn_args, fn_ret>>

Init ==
    /\ InitService
    /\ result = NoResult
    /\ fn_args = None
    /\ fn_ret = None

Next ==
    \/ \E d \in 1..MaxData, n \in ExampleCounts, split_raises \in BOOLEAN :
          TrainStart(d, n, split_raises)
    \/ TrainConstruct
    \/ \E fit_raises \in BOOLEAN : TrainFit(fit_raises)
    \/ TrainEvaluate
    \/ TrainImportance
    \/ \E written \in BOOLEAN : TrainSave(written)
    \/ TrainFinish
    \/ \E written \in BOOLEAN : Save(written)
    \/ Load
    \/ \E features \in FeatureDicts, buy_probability \in ProbValues :
          Predict(features, buy_probability)
    \/ GetMetrics
    \/ GetStatus
    \/ Respond

Spec == Init /\ [][Next]_vars

----------------------------------------------------------------------------
(* analyze_symbol against the service.  The candle sequences fed to it are
   given by the values the indicators take on them. *)

\* A candle sequence, by what the code computes from it: its length, its
\* last close, and the value each indicator's arithmetic yields on it.  The
\* indicators are rounded to 2 decimals by the code, hence exact in
\* hundredths.  The 20-candle volatility, stdev / mean * 100, is stored
\* unrounded (ml_features_service line 108): it is given as the fraction
\* volatility_n / volatility_d nearest to the float, which differs from it
\* by less than 10^-15.  avg_volume is round(mean, 0) of the last 20
\* volumes and current_volume the last volume, both in units; support and
\* resistance are the lowest low and the highest high of the last 50
\* candles, in hundredths (0 below 10 candles).  `shape`
\* and `profile` name the closes and the volumes: rising 100, 101, ...;
\* falling 1000, 999, ...; flat 100; zigzag +3, -2, ...; dip is rising with
\* the last close 30 lower; spikeup is falling with the last close 40
\* higher; volumes are 1000 with the last one 3000 (spike) or 500 (dry).
Candles(shape, len, profile, close, rsi, rsi_7, ema_12, ema_26, sma_20, sma_50, sma_200, lower, upper, volatility_n, volatility_d, volume_ratio, volume_trend, correlation, obv, avg_volume, current_volume, support, resistance) ==
    [shape |-> shape, len |-> len, profile |-> profile, close |-> close,
     rsi |-> rsi, rsi_7 |-> rsi_7, ema_12 |-> ema_12, ema_26 |-> ema_26,
     sma_20 |-> sma_20, sma_50 |-> sma_50, sma_200 |-> sma_200,
     lower |-> lower, upper |-> upper,
     volatility_20d |-> Rat(volatility_n, volatility_d),
     support |-> support, resistance |-> resistance,
     volume |-> [avg_volume |-> avg_volume,
                 current_volume |-> current_volume,
                 volume_ratio |-> volume_ratio, trend |-> volume_trend,
                 obv |-> obv, price_volume_correlation |-> correlation]]

CandleSequences ==
    { Candles("rising", 0, "const", 0, 0, 0, 0, 0, 0, 0, 0, 0,
              0, 0, 1, 100, "STABLE", "NEUTRAL", 0, 0, 0, 0, 0),
      Candles("rising", 19, "const", 11800, 10000, 10000, 11250, 0, 0, 0, 0, 0,
              0, 0, 1, 100, "STABLE", "NEUTRAL", 0, 0, 0, 9900, 11900),
      Candles("rising", 20, "const", 11900, 10000, 10000, 11350, 0, 10950, 0, 0, 9767,
              12133, 157127162, 29082475, 100, "STABLE", "DIVERGENT", 19000, 1000, 1000, 9900, 12000),
      Candles("rising", 20, "spike", 11900, 10000, 10000, 11350, 0, 10950, 0, 0, 9767,
              12133, 157127162, 29082475, 273, "INCREASING", "DIVERGENT", 21000, 1100, 3000, 9900, 12000),
      Candles("rising", 20, "dry", 11900, 10000, 10000, 11350, 0, 10950, 0, 0, 9767,
              12133, 157127162, 29082475, 51, "STABLE", "CONFIRMATORY", 18500, 975, 500, 9900, 12000),
      Candles("rising", 26, "const", 12500, 10000, 10000, 11950, 11250, 11550, 0, 0, 10367,
              12733, 346384991, 67624961, 100, "STABLE", "DIVERGENT", 25000, 1000, 1000, 9900, 12600),
      Candles("rising", 26, "spike", 12500, 10000, 10000, 11950, 11250, 11550, 0, 0, 10367,
              12733, 346384991, 67624961, 273, "INCREASING", "DIVERGENT", 27000, 1100, 3000, 9900, 12600),
      Candles("rising", 26, "dry", 12500, 10000, 10000, 11950, 11250, 11550, 0, 0, 10367,
              12733, 346384991, 67624961, 51, "STABLE", "CONFIRMATORY", 24500, 975, 500, 9900, 12600),
      Candles("rising", 50, "const", 14900, 10000, 10000, 14350, 13650, 13950, 12450, 0, 12767,
              15133, 95673676, 22559665, 100, "STABLE", "DIVERGENT", 49000, 1000, 1000, 9900, 15000),
      Candles("rising", 50, "spike", 14900, 10000, 10000, 14350, 13650, 13950, 12450, 0, 12767,
              15133, 95673676, 22559665, 273, "INCREASING", "DIVERGENT", 51000, 1100, 3000, 9900, 15000),
      Candles("rising", 50, "dry", 14900, 10000, 10000, 14350, 13650, 13950, 12450, 0, 12767,
              15133, 95673676, 22559665, 51, "STABLE", "CONFIRMATORY", 48500, 975, 500, 9900, 15000),
      Candles("rising", 200, "const", 29900, 10000, 10000, 29350, 28650, 28950, 27450, 19950, 27767,
              30133, 73092475, 35767387, 100, "STABLE", "DIVERGENT", 199000, 1000, 1000, 24900, 30000),
      Candles("rising", 200, "spike", 29900, 10000, 10000, 29350, 28650, 28950, 27450, 19950, 27767,
              30133, 73092475, 35767387, 273, "INCREASING", "DIVERGENT", 201000, 1100, 3000, 24900, 30000),
      Candles("rising", 200, "dry", 29900, 10000, 10000, 29350, 28650, 28950, 27450, 19950, 27767,
              30133, 73092475, 35767387, 51, "STABLE", "CONFIRMATORY", 198500, 975, 500, 24900, 30000),
      Candles("falling", 20, "const", 98100, 0, 0, 98650, 0, 99050, 0, 0, 97867,
              100233, 32075179, 53701887, 100, "STABLE", "CONFIRMATORY", -19000, 1000, 1000, 98000, 100100),
      Candles("falling", 20, "spike", 98100, 0, 0, 98650, 0, 99050, 0, 0, 97867,
              100233, 32075179, 53701887, 273, "INCREASING", "CONFIRMATORY", -21000, 1100, 3000, 98000, 100100),
      Candles("falling", 20, "dry", 98100, 0, 0, 98650, 0, 99050, 0, 0, 97867,
              100233, 32075179, 53701887, 51, "STABLE", "DIVERGENT", -18500, 975, 500, 98000, 100100),
      Candles("falling", 26, "const", 97500, 0, 0, 98050, 98750, 98450, 0, 0, 97267,
              99633, 10716179, 17832887, 100, "STABLE", "CONFIRMATORY", -25000, 1000, 1000, 97400, 100100),
      Candles("falling", 26, "spike", 97500, 0, 0, 98050, 98750, 98450, 0, 0, 97267,
              99633, 10716179, 17832887, 273, "INCREASING", "CONFIRMATORY", -27000, 1100, 3000, 97400, 100100),
      Candles("falling", 26, "dry", 97500, 0, 0, 98050, 98750, 98450, 0, 0, 97267,
              99633, 10716179, 17832887, 51, "STABLE", "DIVERGENT", -24500, 975, 500, 97400, 100100),
      Candles("falling", 50, "const", 95100, 0, 0, 95650, 96350, 96050, 97550, 0, 94867,
              97233, 22200859, 36044012, 100, "STABLE", "CONFIRMATORY", -49000, 1000, 1000, 95000, 100100),
      Candles("falling", 50, "spike", 95100, 0, 0, 95650, 96350, 96050, 97550, 0, 94867,
              97233, 22200859, 36044012, 273, "INCREASING", "CONFIRMATORY", -51000, 1100, 3000, 95000, 100100),
      Candles("falling", 50, "dry", 95100, 0, 0, 95650, 96350, 96050, 97550, 0, 94867,
              97233, 22200859, 36044012, 51, "STABLE", "DIVERGENT", -48500, 975, 500, 95000, 100100),
      Candles("falling", 200, "const", 80100, 0, 0, 80650, 81350, 81050, 82550, 90050, 79867,
              82233, 49001783, 67132200, 100, "STABLE", "CONFIRMATORY", -199000, 1000, 1000, 80000, 85100),
      Candles("falling", 200, "spike", 80100, 0, 0, 80650, 81350, 81050, 82550, 90050, 79867,
              82233, 49001783, 67132200, 273, "INCREASING", "CONFIRMATORY", -201000, 1100, 3000, 80000, 85100),
      Candles("falling", 200, "dry", 80100, 0, 0, 80650, 81350, 81050, 82550, 90050, 79867,
              82233, 49001783, 67132200, 51, "STABLE", "DIVERGENT", -198500, 975, 500, 80000, 85100),
      Candles("flat", 20, "const", 10000, 10000, 10000, 10000, 0, 10000, 0, 0, 10000,
              10000, 0, 1, 100, "STABLE", "CONFIRMATORY", 0, 1000, 1000, 9900, 10100),
      Candles("flat", 20, "spike", 10000, 10000, 10000, 10000, 0, 10000, 0, 0, 10000,
              10000, 0, 1, 273, "INCREASING", "CONFIRMATORY", 0, 1100, 3000, 9900, 10100),
      Candles("flat", 20, "dry", 10000, 10000, 10000, 10000, 0, 10000, 0, 0, 10000,
              10000, 0, 1, 51, "STABLE", "DIVERGENT", 0, 975, 500, 9900, 10100),
      Candles("flat", 26, "const", 10000, 10000, 10000, 10000, 10000, 10000, 0, 0, 10000,
              10000, 0, 1, 100, "STABLE", "CONFIRMATORY", 0, 1000, 1000, 9900, 10100),
      Candles("flat", 26, "spike", 10000, 10000, 10000, 10000, 10000, 10000, 0, 0, 10000,
              10000, 0, 1, 273, "INCREASING", "CONFIRMATORY", 0, 1100, 3000, 9900, 10100),
      Candles("flat", 26, "dry", 10000, 10000, 10000, 10000, 10000, 10000, 0, 0, 10000,
              10000, 0, 1, 51, "STABLE", "DIVERGENT", 0, 975, 500, 9900, 10100),
      Candles("flat", 50, "const", 10000, 10000, 10000, 10000, 10000, 10000, 10000, 0, 10000,
              10000, 0, 1, 100, "STABLE", "CONFIRMATORY", 0, 1000, 1000, 9900, 10100),
      Candles("flat", 50, "spike", 10000, 10000, 10000, 10000, 10000, 10000, 10000, 0, 10000,
              10000, 0, 1, 273, "INCREASING", "CONFIRMATORY", 0, 1100, 3000, 9900, 10100),
      Candles("flat", 50, "dry", 10000, 10000, 10000, 10000, 10000, 10000, 10000, 0, 10000,
              10000, 0, 1, 51, "STABLE", "DIVERGENT", 0, 975, 500, 9900, 10100),
      Candles("flat", 200, "const", 10000, 10000, 10000, 10000, 10000, 10000, 10000, 10000, 10000,
              10000, 0, 1, 100, "STABLE", "CONFIRMATORY", 0, 1000, 1000, 9900, 10100),
      Candles("flat", 200, "spike", 10000, 10000, 10000, 10000, 10000, 10000, 10000, 10000, 10000,
              10000, 0, 1, 273, "INCREASING", "CONFIRMATORY", 0, 1100, 3000, 9900, 10100),
      Candles("flat", 200, "dry", 10000, 10000, 10000, 10000, 10000, 10000, 10000, 10000, 10000,
              10000, 0, 1, 51, "STABLE", "DIVERGENT", 0, 975, 500, 9900, 10100),
      Candles("zigzag", 20, "const", 11000, 6000, 5294, 10842, 0, 10650, 0, 0, 10026,
              11274, 91643828, 31278345, 100, "STABLE", "NEUTRAL", -1000, 1000, 1000, 10000, 11300),
      Candles("zigzag", 20, "spike", 11000, 6000, 5294, 10842, 0, 10650, 0, 0, 10026,
              11274, 91643828, 31278345, 273, "INCREASING", "NEUTRAL", -3000, 1100, 3000, 10000, 11300),
      Candles("zigzag", 20, "dry", 11000, 6000, 5294, 10842, 0, 10650, 0, 0, 10026,
              11274, 91643828, 31278345, 51, "STABLE", "NEUTRAL", -500, 975, 500, 10000, 11300),
      Candles("zigzag", 26, "const", 11300, 6000, 5294, 11141, 10800, 10950, 0, 0, 10326,
              11574, 79397554, 27861993, 100, "STABLE", "NEUTRAL", -1000, 1000, 1000, 10000, 11600),
      Candles("zigzag", 26, "spike", 11300, 6000, 5294, 11141, 10800, 10950, 0, 0, 10326,
              11574, 79397554, 27861993, 273, "INCREASING", "NEUTRAL", -3000, 1100, 3000, 10000, 11600),
      Candles("zigzag", 26, "dry", 11300, 6000, 5294, 11141, 10800, 10950, 0, 0, 10326,
              11574, 79397554, 27861993, 51, "STABLE", "NEUTRAL", -500, 975, 500, 10000, 11600),
      Candles("zigzag", 50, "const", 12500, 6000, 5294, 12340, 11996, 12150, 11400, 0, 11526,
              12774, 173722338, 67643003, 100, "STABLE", "NEUTRAL", -1000, 1000, 1000, 10000, 12800),
      Candles("zigzag", 50, "spike", 12500, 6000, 5294, 12340, 11996, 12150, 11400, 0, 11526,
              12774, 173722338, 67643003, 273, "INCREASING", "NEUTRAL", -3000, 1100, 3000, 10000, 12800),
      Candles("zigzag", 50, "dry", 12500, 6000, 5294, 12340, 11996, 12150, 11400, 0, 11526,
              12774, 173722338, 67643003, 51, "STABLE", "NEUTRAL", -500, 975, 500, 10000, 12800),
      Candles("zigzag", 200, "const", 20000, 6000, 5294, 19840, 19495, 19650, 18900, 15150, 19026,
              20274, 145452607, 91595682, 100, "STABLE", "NEUTRAL", -1000, 1000, 1000, 17500, 20300),
      Candles("zigzag", 200, "spike", 20000, 6000, 5294, 19840, 19495, 19650, 18900, 15150, 19026,
              20274, 145452607, 91595682, 273, "INCREASING", "NEUTRAL", -3000, 1100, 3000, 17500, 20300),
      Candles("zigzag", 200, "dry", 20000, 6000, 5294, 19840, 19495, 19650, 18900, 15150, 19026,
              20274, 145452607, 91595682, 51, "STABLE", "NEUTRAL", -500, 975, 500, 17500, 20300),
      Candles("dip", 20, "const", 8900, 3095, 1714, 10888, 0, 10800, 0, 0, 9386,
              12214, 384989754, 58801435, 100, "STABLE", "DIVERGENT", 17000, 1000, 1000, 8800, 11900),
      Candles("dip", 20, "spike", 8900, 3095, 1714, 10888, 0, 10800, 0, 0, 9386,
              12214, 384989754, 58801435, 273, "INCREASING", "DIVERGENT", 15000, 1100, 3000, 8800, 11900),
      Candles("dip", 20, "dry", 8900, 3095, 1714, 10888, 0, 10800, 0, 0, 9386,
              12214, 384989754, 58801435, 51, "STABLE", "CONFIRMATORY", 17500, 975, 500, 8800, 11900),
      Candles("dip", 26, "const", 9500, 3095, 1714, 11488, 11135, 11400, 0, 0, 9986,
              12814, 562482622, 90683643, 100, "STABLE", "DIVERGENT", 23000, 1000, 1000, 9400, 12500),
      Candles("dip", 26, "spike", 9500, 3095, 1714, 11488, 11135, 11400, 0, 0, 9986,
              12814, 562482622, 90683643, 273, "INCREASING", "DIVERGENT", 21000, 1100, 3000, 9400, 12500),
      Candles("dip", 26, "dry", 9500, 3095, 1714, 11488, 11135, 11400, 0, 0, 9986,
              12814, 562482622, 90683643, 51, "STABLE", "CONFIRMATORY", 23500, 975, 500, 9400, 12500),
      Candles("dip", 50, "const", 11900, 3095, 1714, 13888, 13428, 13800, 12390, 0, 12386,
              15214, 445440354, 86932795, 100, "STABLE", "DIVERGENT", 47000, 1000, 1000, 9900, 14900),
      Candles("dip", 50, "spike", 11900, 3095, 1714, 13888, 13428, 13800, 12390, 0, 12386,
              15214, 445440354, 86932795, 273, "INCREASING", "DIVERGENT", 45000, 1100, 3000, 9900, 14900),
      Candles("dip", 50, "dry", 11900, 3095, 1714, 13888, 13428, 13800, 12390, 0, 12386,
              15214, 445440354, 86932795, 51, "STABLE", "CONFIRMATORY", 47500, 975, 500, 9900, 14900),
      Candles("dip", 200, "const", 26900, 3095, 1714, 28888, 28428, 28800, 27390, 19935, 27386,
              30214, 116743553, 47548891, 100, "STABLE", "DIVERGENT", 197000, 1000, 1000, 24900, 29900),
      Candles("dip", 200, "spike", 26900, 3095, 1714, 28888, 28428, 28800, 27390, 19935, 27386,
              30214, 116743553, 47548891, 273, "INCREASING", "DIVERGENT", 195000, 1100, 3000, 24900, 29900),
      Candles("dip", 200, "dry", 26900, 3095, 1714, 28888, 28428, 28800, 27390, 19935, 27386,
              30214, 116743553, 47548891, 51, "STABLE", "CONFIRMATORY", 197500, 975, 500, 24900, 29900),
      Candles("spikeup", 20, "const", 102100, 7500, 8667, 99265, 0, 99250, 0, 0, 97518,
              100982, 63712845, 73017487, 100, "STABLE", "CONFIRMATORY", -17000, 1000, 1000, 98100, 102200),
      Candles("spikeup", 20, "spike", 102100, 7500, 8667, 99265, 0, 99250, 0, 0, 97518,
              100982, 63712845, 73017487, 273, "INCREASING", "CONFIRMATORY", -15000, 1100, 3000, 98100, 102200),
      Candles("spikeup", 20, "dry", 102100, 7500, 8667, 99265, 0, 99250, 0, 0, 97518,
              100982, 63712845, 73017487, 51, "STABLE", "DIVERGENT", -17500, 975, 500, 98100, 102200),
      Candles("spikeup", 26, "const", 101500, 7500, 8667, 98665, 98904, 98650, 0, 0, 96918,
              100382, 25519358, 29069409, 100, "STABLE", "CONFIRMATORY", -23000, 1000, 1000, 97500, 101600),
      Candles("spikeup", 26, "spike", 101500, 7500, 8667, 98665, 98904, 98650, 0, 0, 96918,
              100382, 25519358, 29069409, 273, "INCREASING", "CONFIRMATORY", -21000, 1100, 3000, 97500, 101600),
      Candles("spikeup", 26, "dry", 101500, 7500, 8667, 98665, 98904, 98650, 0, 0, 96918,
              100382, 25519358, 29069409, 51, "STABLE", "DIVERGENT", -23500, 975, 500, 97500, 101600),
      Candles("spikeup", 50, "const", 99100, 7500, 8667, 96265, 96646, 96250, 97630, 0, 94518,
              97982, 52492589, 58340225, 100, "STABLE", "CONFIRMATORY", -47000, 1000, 1000, 95100, 100100),
      Candles("spikeup", 50, "spike", 99100, 7500, 8667, 96265, 96646, 96250, 97630, 0, 94518,
              97982, 52492589, 58340225, 273, "INCREASING", "CONFIRMATORY", -45000, 1100, 3000, 95100, 100100),
      Candles("spikeup", 50, "dry", 99100, 7500, 8667, 96265, 96646, 96250, 97630, 0, 94518,
              97982, 52492589, 58340225, 51, "STABLE", "DIVERGENT", -47500, 975, 500, 95100, 100100),
      Candles("spikeup", 200, "const", 84100, 7500, 8667, 81265, 81646, 81250, 82630, 90070, 79518,
              82982, 101687054, 95402203, 100, "STABLE", "CONFIRMATORY", -197000, 1000, 1000, 80100, 85100),
      Candles("spikeup", 200, "spike", 84100, 7500, 8667, 81265, 81646, 81250, 82630, 90070, 79518,
              82982, 101687054, 95402203, 273, "INCREASING", "CONFIRMATORY", -195000, 1100, 3000, 80100, 85100),
      Candles("spikeup", 200, "dry", 84100, 7500, 8667, 81265, 81646, 81250, 82630, 90070, 79518,
              82982, 101687054, 95402203, 51, "STABLE", "DIVERGENT", -197500, 975, 500, 80100, 85100) }

\* sequences one candle short of, and just at, the length an indicator needs
BoundarySequences ==
    { Candles("rising", 1, "const", 10000, 0, 0, 0, 0, 0, 0, 0, 0,
              0, 0, 1, 100, "STABLE", "NEUTRAL", 0, 0, 0, 0, 0),
      Candles("rising", 7, "const", 10600, 0, 0, 0, 0, 0, 0, 0, 0,
              0, 0, 1, 100, "STABLE", "NEUTRAL", 0, 0, 0, 0, 0),
      Candles("rising", 8, "const", 10700, 0, 10000, 0, 0, 0, 0, 0, 0,
              0, 0, 1, 100, "STABLE", "NEUTRAL", 0, 0, 0, 0, 0),
      Candles("rising", 11, "const", 11000, 0, 10000, 0, 0, 0, 0, 0, 0,
              0, 0, 1, 100, "STABLE", "NEUTRAL", 0, 0, 0, 9900, 11100),
      Candles("rising", 12, "const", 11100, 0, 10000, 10550, 0, 0, 0, 0, 0,
              0, 0, 1, 100, "STABLE", "NEUTRAL", 0, 0, 0, 9900, 11200),
      Candles("rising", 14, "const", 11300, 0, 10000, 10750, 0, 0, 0, 0, 0,
              0, 0, 1, 100, "STABLE", "NEUTRAL", 0, 0, 0, 9900, 11400),
      Candles("rising", 15, "const", 11400, 10000, 10000, 10850, 0, 0, 0, 0, 0,
              0, 0, 1, 100, "STABLE", "NEUTRAL", 0, 0, 0, 9900, 11500),
      Candles("rising", 25, "const", 12400, 10000, 10000, 11850, 0, 11450, 0, 0, 10267,
              12633, 263445239, 50987277, 100, "STABLE", "DIVERGENT", 24000, 1000, 1000, 9900, 12500),
      Candles("rising", 49, "const", 14800, 10000, 10000, 14250, 13550, 13850, 0, 0, 12667,
              15033, 123534465, 28920373, 100, "STABLE", "DIVERGENT", 48000, 1000, 1000, 9900, 14900),
      Candles("rising", 199, "const", 29800, 10000, 10000, 29250, 28550, 28850, 27350, 0, 27667,
              30033, 187621451, 91494352, 100, "STABLE", "DIVERGENT", 198000, 1000, 1000, 24800, 29900),
      Candles("falling", 1, "const", 100000, 0, 0, 0, 0, 0, 0, 0, 0,
              0, 0, 1, 100, "STABLE", "NEUTRAL", 0, 0, 0, 0, 0),
      Candles("falling", 7, "const", 99400, 0, 0, 0, 0, 0, 0, 0, 0,
              0, 0, 1, 100, "STABLE", "NEUTRAL", 0, 0, 0, 0, 0),
      Candles("falling", 8, "const", 99300, 0, 0, 0, 0, 0, 0, 0, 0,
              0, 0, 1, 100, "STABLE", "NEUTRAL", 0, 0, 0, 0, 0),
      Candles("falling", 11, "const", 99000, 0, 0, 0, 0, 0, 0, 0, 0,
              0, 0, 1, 100, "STABLE", "NEUTRAL", 0, 0, 0, 98900, 100100),
      Candles("falling", 12, "const", 98900, 0, 0, 99450, 0, 0, 0, 0, 0,
              0, 0, 1, 100, "STABLE", "NEUTRAL", 0, 0, 0, 98800, 100100),
      Candles("falling", 14, "const", 98700, 0, 0, 99250, 0, 0, 0, 0, 0,
              0, 0, 1, 100, "STABLE", "NEUTRAL", 0, 0, 0, 98600, 100100),
      Candles("falling", 15, "const", 98600, 0, 0, 99150, 0, 0, 0, 0, 0,
              0, 0, 1, 100, "STABLE", "NEUTRAL", 0, 0, 0, 98500, 100100),
      Candles("falling", 19, "const", 98200, 0, 0, 98750, 0, 0, 0, 0, 0,
              0, 0, 1, 100, "STABLE", "NEUTRAL", 0, 0, 0, 98100, 100100),
      Candles("falling", 25, "const", 97600, 0, 0, 98150, 0, 98550, 0, 0, 97367,
              99733, 21601359, 35983523, 100, "STABLE", "CONFIRMATORY", -24000, 1000, 1000, 97500, 100100),
      Candles("falling", 49, "const", 95200, 0, 0, 95750, 96450, 96150, 0, 0, 94967,
              97333, 51343869, 83445680, 100, "STABLE", "CONFIRMATORY", -48000, 1000, 1000, 95100, 100100),
      Candles("falling", 199, "const", 80200, 0, 0, 80750, 81450, 81150, 82650, 0, 79967,
              82333, 54371101, 74580043, 100, "STABLE", "CONFIRMATORY", -198000, 1000, 1000, 80100, 85200),
      Candles("flat", 1, "const", 10000, 0, 0, 0, 0, 0, 0, 0, 0,
              0, 0, 1, 100, "STABLE", "NEUTRAL", 0, 0, 0, 0, 0),
      Candles("flat", 7, "const", 10000, 0, 0, 0, 0, 0, 0, 0, 0,
              0, 0, 1, 100, "STABLE", "NEUTRAL", 0, 0, 0, 0, 0),
      Candles("flat", 8, "const", 10000, 0, 10000, 0, 0, 0, 0, 0, 0,
              0, 0, 1, 100, "STABLE", "NEUTRAL", 0, 0, 0, 0, 0),
      Candles("flat", 11, "const", 10000, 0, 10000, 0, 0, 0, 0, 0, 0,
              0, 0, 1, 100, "STABLE", "NEUTRAL", 0, 0, 0, 9900, 10100),
      Candles("flat", 12, "const", 10000, 0, 10000, 10000, 0, 0, 0, 0, 0,
              0, 0, 1, 100, "STABLE", "NEUTRAL", 0, 0, 0, 9900, 10100),
      Candles("flat", 14, "const", 10000, 0, 10000, 10000, 0, 0, 0, 0, 0,
              0, 0, 1, 100, "STABLE", "NEUTRAL", 0, 0, 0, 9900, 10100),
      Candles("flat", 15, "const", 10000, 10000, 10000, 10000, 0, 0, 0, 0, 0,
              0, 0, 1, 100, "STABLE", "NEUTRAL", 0, 0, 0, 9900, 10100),
      Candles("flat", 19, "const", 10000, 10000, 10000, 10000, 0, 0, 0, 0, 0,
              0, 0, 1, 100, "STABLE", "NEUTRAL", 0, 0, 0, 9900, 10100),
      Candles("flat", 25, "const", 10000, 10000, 10000, 10000, 0, 10000, 0, 0, 10000,
              10000, 0, 1, 100, "STABLE", "CONFIRMATORY", 0, 1000, 1000, 9900, 10100),
      Candles("flat", 49, "const", 10000, 10000, 10000, 10000, 10000, 10000, 0, 0, 10000,
              10000, 0, 1, 100, "STABLE", "CONFIRMATORY", 0, 1000, 1000, 9900, 10100),
      Candles("flat", 199, "const", 10000, 10000, 10000, 10000, 10000, 10000, 10000, 0, 10000,
              10000, 0, 1, 100, "STABLE", "CONFIRMATORY", 0, 1000, 1000, 9900, 10100),
      Candles("rising", 2, "const", 10100, 0, 0, 0, 0, 0, 0, 0, 0,
              0, 0, 1, 100, "STABLE", "NEUTRAL", 0, 0, 0, 0, 0),
      Candles("rising", 5, "const", 10400, 0, 0, 0, 0, 0, 0, 0, 0,
              0, 0, 1, 100, "STABLE", "NEUTRAL", 0, 0, 0, 0, 0),
      Candles("rising", 6, "const", 10500, 0, 0, 0, 0, 0, 0, 0, 0,
              0, 0, 1, 100, "STABLE", "NEUTRAL", 0, 0, 0, 0, 0),
      Candles("rising", 21, "const", 12000, 10000, 10000, 11450, 0, 11050, 0, 0, 9867,
              12233, 364372869, 68057233, 100, "STABLE", "DIVERGENT", 20000, 1000, 1000, 9900, 12100),
      Candles("rising", 61, "const", 16000, 10000, 10000, 15450, 14750, 15050, 13550, 0, 13867,
              16233, 119020039, 30277678, 100, "STABLE", "DIVERGENT", 60000, 1000, 1000, 11000, 16100),
      Candles("rising", 121, "const", 22000, 10000, 10000, 21450, 20750, 21050, 19550, 0, 19867,
              22233, 78376877, 27887272, 100, "STABLE", "DIVERGENT", 120000, 1000, 1000, 17000, 22100),
      Candles("rising", 250, "const", 34900, 10000, 10000, 34350, 33650, 33950, 32450, 24950, 32767,
              35133, 52384825, 30061542, 100, "STABLE", "DIVERGENT", 249000, 1000, 1000, 29900, 35000),
      Candles("rising", 251, "const", 35000, 10000, 10000, 34450, 33750, 34050, 32550, 25050, 32867,
              35233, 173504934, 99860773, 100, "STABLE", "DIVERGENT", 250000, 1000, 1000, 30000, 35100),
      Candles("zigzag", 2, "const", 10100, 0, 0, 0, 0, 0, 0, 0, 0,
              0, 0, 1, 100, "STABLE", "NEUTRAL", 0, 0, 0, 0, 0),
      Candles("zigzag", 5, "const", 10500, 0, 0, 0, 0, 0, 0, 0, 0,
              0, 0, 1, 100, "STABLE", "NEUTRAL", 0, 0, 0, 0, 0),
      Candles("zigzag", 6, "const", 10300, 0, 0, 0, 0, 0, 0, 0, 0,
              0, 0, 1, 100, "STABLE", "NEUTRAL", 0, 0, 0, 0, 0),
      Candles("zigzag", 21, "const", 11300, 6000, 6667, 10913, 0, 10700, 0, 0, 10035,
              11365, 247503479, 79658521, 100, "STABLE", "NEUTRAL", 0, 1000, 1000, 10000, 11400),
      Candles("zigzag", 61, "const", 13300, 6000, 6667, 12910, 12555, 12700, 11950, 0, 12035,
              13365, 158586019, 60580907, 100, "STABLE", "NEUTRAL", 0, 1000, 1000, 10500, 13400),
      Candles("zigzag", 121, "const", 16300, 6000, 6667, 15910, 15555, 15700, 14950, 0, 15035,
              16365, 137824433, 65086815, 100, "STABLE", "NEUTRAL", 0, 1000, 1000, 13500, 16400),
      Candles("zigzag", 250, "const", 22500, 6000, 5294, 22340, 21995, 22150, 21400, 17650, 21526,
              22774, 34990609, 24837974, 100, "STABLE", "NEUTRAL", -1000, 1000, 1000, 20000, 22800),
      Candles("zigzag", 251, "const", 22800, 6000, 6667, 22410, 22055, 22200, 21450, 17700, 21535,
              22865, 143419988, 95770071, 100, "STABLE", "NEUTRAL", 0, 1000, 1000, 20000, 22900) }

Analyze(candles, buy_probability) ==
    /\ result = NoResult
    /\ LET r == analyze_symbol(candles, buy_probability, Live, disk)
       IN  /\ SetLive(r.live)
           /\ result' = [op |-> "analyze", received |-> candles.len,
                         report |-> r.report, signal_data |-> r.signal_data,
                         calls |-> r.calls]
    /\ UNCHANGED <<training_history, disk, train_pc, train_arg, fn_args,
                   fn_ret, ml_enabled>>

\* symbol_analytics_service lines 22-33: the constructor.  ml_enabled stays
\* True when the two ML services import (load_model, called at line 30,
\* swallows its own failures and finds no file here), and is set to False
\* by the except branch when they do not.
InitAnalyze ==
    /\ model = NoModel
    /\ feature_names = <<>>
    /\ params = DefaultParams
    /\ metrics = NoMetrics
    /\ training_history = <<>>
    /\ disk = None
    /\ train_pc = "idle"
    /\ train_arg = 0
    /\ ml_enabled \in BOOLEAN
    /\ result = NoResult
    /\ fn_args = None
    /\ fn_ret = None

\* The class-1 probabilities the classifier answers during an analyze: a
\* SELL, a HOLD and a BUY, with confidences on both sides of the 80 that
\* _generate_signal compares with (the thresholds 0.4 and 0.6 themselves are
\* drawn where predict is called on its own)
AnalyzeProbs == {1000, 3990, 5000, 6010, 8000, 8012, 9000}

\* The answers that can be given in this state: any of AnalyzeProbs when
\* predict on an extracted vector reaches predict_proba on a fitted
\* classifier (line 148); when the call cannot get that far no answer is
\* given, and one value stands in for the unused argument
ClassifierAnswers ==
    LET r == predict(Range(get_feature_names), 5000, Live, disk)
    IN  IF ml_enabled /\ ~r.raised /\ r.value.source = "ML" THEN AnalyzeProbs
        ELSE {5000}

\* the training sets passed to train beside analyze_symbol: their columns are
\* the extractor's (the generator's key order, which the training script and
\* the training endpoint pass on)
AnalyzeData == {1}

\* the model service takes calls (train, save_model, load_model) only in a
\* process that could import it
NextAnalyze ==
    \/ /\ ml_enabled
       /\ \E d \in AnalyzeData, n \in ExampleCounts, split_raises \in BOOLEAN :
             TrainStartUpTo(MaxAnalyzeHistory, d, n, split_raises)
    \/ ml_enabled /\ TrainConstruct
    \/ ml_enabled /\ \E fit_raises \in BOOLEAN : TrainFit(fit_raises)
    \/ ml_enabled /\ TrainEvaluate
    \/ ml_enabled /\ TrainImportance
    \/ ml_enabled /\ \E written \in BOOLEAN : TrainSave(written)
    \/ ml_enabled /\ TrainFinish
    \/ ml_enabled /\ \E written \in BOOLEAN : Save(written)
    \/ ml_enabled /\ Load
    \/ \E candles \in CandleSequences, buy_probability \in ClassifierAnswers :
          Analyze(candles, buy_probability)
    \/ Respond

SpecAnalyze == InitAnalyze /\ [][NextAnalyze]_vars

----------------------------------------------------------------------------
(* The pure functions on their own: Init draws the arguments, the action
   applies the function once. *)

VolumeRatios == {50, 69, 70, 100, 150, 151, 200, 201, 250}
Correlations == {"CONFIRMATORY", "DIVERGENT", "NEUTRAL"}
ObvValues == {-1, 0, 1}
Trends == {"BULLISH", "BEARISH", "NEUTRAL"}

VolumeArgs ==
    [volume_data : [volume_ratio : VolumeRatios,
                    price_volume_correlation : Correlations,
                    obv : ObvValues],
     price_trend : Trends]

InitVolume ==
    /\ InitService
    /\ result = NoResult
    /\ fn_args \in VolumeArgs
    /\ fn_ret = None

CallVolumeAdjustment ==
    /\ fn_ret = None
    /\ fn_ret' = Some(get_volume_signal_adjustment(fn_args.volume_data,
                                                   fn_args.price_trend))
    /\ UNCHANGED <<service_vars, result, fn_args>>

SpecVolume == InitVolume /\ [][CallVolumeAdjustment]_vars

HeavyVolume ==
    [volume_ratio |-> 250, price_volume_correlation |-> "CONFIRMATORY",
     obv |-> 1]
DryVolume ==
    [volume_ratio |-> 50, price_volume_correlation |-> "DIVERGENT",
     obv |-> -1]
PlainVolume ==
    [volume_ratio |-> 100, price_volume_correlation |-> "NEUTRAL", obv |-> -1]

\* the predictions analyze_symbol can pass on: nothing, the soft failure,
\* or a classifier's answer
SignalProbValues ==
    {1000, 1990, 2000, 3990, 4000, 5000, 6000, 6010, 7000, 8000, 8012, 8050,
     9000}
Predictions ==
    {None, Some(NotTrainedPrediction)}
    \cup {Some(PredictionFromProba(p)) : p \in SignalProbValues}

SignalArgs ==
    [current_price : 1..MaxPrice,
     rsi : {None, Some(0), Some(2999), Some(5000), Some(7001)},
     macd : {None, Some([histogram |-> -1]), Some([histogram |-> 1])},
     sma_20 : {None, Some(2)},
     sma_50 : {None, Some(1), Some(MaxPrice)},
     sma_200 : {None, Some(2)},
     bollinger : {None, Some([lower |-> 2, upper |-> 2]),
                  Some([lower |-> 1, upper |-> MaxPrice])},
     trend : Trends,
     volume_data : {None, Some(HeavyVolume), Some(DryVolume),
                    Some(PlainVolume)},
     ml_prediction : Predictions]

InitSignal ==
    /\ InitService
    /\ result = NoResult
    /\ fn_args \in SignalArgs
    /\ fn_ret = None

CallGenerateSignal ==
    /\ fn_ret = None
    /\ fn_ret' = Some(generate_signal(fn_args.current_price, fn_args.rsi,
                                      fn_args.macd, fn_args.sma_20,
                                      fn_args.sma_50, fn_args.sma_200,
                                      fn_args.bollinger, fn_args.trend,
                                      fn_args.volume_data,
                                      fn_args.ml_prediction))
    /\ UNCHANGED <<service_vars, result, fn_args>>

SpecSignal == InitSignal /\ [][CallGenerateSignal]_vars

\* predict on its own: the fields in memory, the stored blob, the feature
\* dict and the classifier's answer are drawn
PredictProbs ==
    {0, 1000, 3999, 4000, 4001, 5000, 5999, 6000, 6001, 6004, 7123, 8766,
     9999, 10000}


LiveStates ==
    {EmptyLive} \cup {TrainedLive(d) : d \in 1..MaxData}
    \cup {AbortedLive(d) : d \in 1..MaxData}
\* the files a process can find at model_path: none, an artifact a completed
\* train saved, a file that cannot be read, dicts that lack a key, and a dict
\* whose metrics entry is not a dict
MissingKeys ==
    {{"model"}, {"feature_names"}, {"params"}, {"metrics"},
     {"params", "metrics"}}
Blobs ==
    {None} \cup {Some(TrainedLive(d)) : d \in 1..MaxData}
    \cup {Some(Unreadable)}
    \cup {Some(Without(TrainedLive(d), keys)) :
             d \in 1..MaxData, keys \in MissingKeys}
    \cup {Some([TrainedLive(d) EXCEPT !.metrics = NonDictMetrics]) :
             d \in 1..MaxData}

PredictArgs ==
    [features : FeatureDicts, buy_probability : PredictProbs,
     live : LiveStates, blob : Blobs]

InitPredict ==
    /\ InitService
    /\ result = NoResult
    /\ fn_args \in PredictArgs
    /\ fn_ret = None

CallPredict ==
    /\ fn_ret = None
    /\ fn_ret' = Some(predict(fn_args.features, fn_args.buy_probability,
                              fn_args.live, fn_args.blob))
    /\ UNCHANGED <<service_vars, result, fn_args>>

SpecPredict == InitPredict /\ [][CallPredict]_vars

\* a process that starts with an artifact already in storage
InitLazy ==
    /\ model = NoModel
    /\ feature_names = <<>>
    /\ params = DefaultParams
    /\ metrics = NoMetrics
    /\ training_history = <<>>
    /\ disk \in Blobs
    /\ train_pc = "idle"
    /\ train_arg = 0
    /\ ml_enabled = TRUE
    /\ result = NoResult
    /\ fn_args = None
    /\ fn_ret = None

NextLazy ==
    \/ \E d \in 1..MaxData, n \in ExampleCounts, split_raises \in BOOLEAN :
          TrainStartUpTo(MaxAnalyzeHistory, d, n, split_raises)
    \/ TrainConstruct
    \/ \E fit_raises \in BOOLEAN : TrainFit(fit_raises)
    \/ TrainEvaluate
    \/ TrainImportance
    \/ \E written \in BOOLEAN : TrainSave(written)
    \/ TrainFinish
    \/ \E features \in FeatureDicts, buy_probability \in ProbValues :
          Predict(features, buy_probability)
    \/ GetMetrics
    \/ GetStatus
    \/ Load
    \/ \E written \in BOOLEAN : Save(written)
    \/ Respond

SpecLazy == InitLazy /\ [][NextLazy]_vars

----------------------------------------------------------------------------
(* Properties.  The expected values are written out from the statements,
   not taken from the operators above. *)

\* r is the integer nearest to the rational q, ties going to the even one
IsNearestInteger(r, q) ==
    /\ 2 * Abs(r * q.d - q.n) <= q.d
    /\ (2 * Abs(r * q.d - q.n) = q.d => r % 2 = 0)

\* min(95, (tc + mc) / 2 + 10) for a rational tc and mc in tenths
FusedByFormula(tc, mc) ==
    LET q == Rat(10 * tc.n + (mc + 200) * tc.d, 20 * tc.d)
    IN  IF q.n <= 95 * q.d THEN q ELSE Rat(95, 1)

Called == fn_ret # None
Returned == Val(fn_ret)

\* the signal and confidence _generate_signal had before the hybrid strategy
TraditionalSignalOfCall == TraditionalSignal(Returned.score)
TraditionalConfidenceOfCall ==
    TraditionalConfidence(Returned.score, Returned.max_score)

Agreement ==
    /\ Called
    /\ PredictionUsed(fn_args.ml_prediction)
    /\ TraditionalSignalOfCall = Val(fn_args.ml_prediction).signal

Disagreement ==
    /\ Called
    /\ PredictionUsed(fn_args.ml_prediction)
    /\ TraditionalSignalOfCall # Val(fn_args.ml_prediction).signal

\* C1 as stated: when a prediction is used and agrees with the traditional
\* signal, the reported signal is that signal, the reported confidence is
\* exactly min(95, (traditional + model) / 2 + 10), the source is
\* HYBRID_AGREEMENT and the confidence is at most 95.
C1_AsStated ==
    Agreement =>
        /\ Returned.signal = TraditionalSignalOfCall
        /\ RatEq(Rat(Returned.confidence, 1),
                 FusedByFormula(TraditionalConfidenceOfCall,
                                Val(fn_args.ml_prediction).confidence))
        /\ Returned.source = "HYBRID_AGREEMENT"
        /\ Returned.confidence <= 95

\* C1 amended: when a prediction is used and agrees with the traditional
\* signal, the reported signal is that signal, the reported confidence is
\* min(95, (traditional + model) / 2 + 10) rounded to the nearest integer
\* (ties to even), the source is HYBRID_AGREEMENT and the confidence is at
\* most 95.
C1_AgreementRounded ==
    Agreement =>
        /\ Returned.signal = TraditionalSignalOfCall
        /\ IsNearestInteger(Returned.confidence,
                            FusedByFormula(TraditionalConfidenceOfCall,
                                 Val(fn_args.ml_prediction).confidence))
        /\ Returned.source = "HYBRID_AGREEMENT"
        /\ Returned.confidence <= 95

\* C1 witness: a BUY/BUY agreement whose fused value is not an integer and
\* is reported rounded
C1_Witness ==
    /\ Agreement
    /\ Returned.signal = "BUY"
    /\ Returned.source = "HYBRID_AGREEMENT"
    /\ ~RatEq(Rat(Returned.confidence, 1),
              FusedByFormula(TraditionalConfidenceOfCall,
                             Val(fn_args.ml_prediction).confidence))

\* C2 as stated: when the signals differ, the model's signal and confidence
\* are reported with source ML_HIGH_CONFIDENCE iff model confidence > 80;
\* otherwise the reported signal and confidence are exactly the traditional
\* ones and the source is TRADITIONAL.
C2_AsStated ==
    Disagreement =>
        LET ml == Val(fn_args.ml_prediction)
        IN  IF ml.confidence > 800
            THEN /\ Returned.signal = ml.signal
                 /\ RatEq(Rat(Returned.confidence, 1), Rat(ml.confidence, 10))
                 /\ Returned.source = "ML_HIGH_CONFIDENCE"
            ELSE /\ Returned.signal = TraditionalSignalOfCall
                 /\ RatEq(Rat(Returned.confidence, 1),
                          TraditionalConfidenceOfCall)
                 /\ Returned.source = "TRADITIONAL"

\* C2 amended: when the signals differ, the model's signal and its
\* confidence rounded to the nearest integer are reported with source
\* ML_HIGH_CONFIDENCE iff model confidence > 80 (exactly 80 does not
\* override); otherwise the traditional signal and the traditional
\* confidence rounded to the nearest integer are reported with source
\* TRADITIONAL.
C2_DisagreementRounded ==
    Disagreement =>
        LET ml == Val(fn_args.ml_prediction)
        IN  IF ml.confidence > 800
            THEN /\ Returned.signal = ml.signal
                 /\ IsNearestInteger(Returned.confidence,
                                     Rat(ml.confidence, 10))
                 /\ Returned.source = "ML_HIGH_CONFIDENCE"
            ELSE /\ Returned.signal = TraditionalSignalOfCall
                 /\ IsNearestInteger(Returned.confidence,
                                     TraditionalConfidenceOfCall)
                 /\ Returned.source = "TRADITIONAL"

\* C2 witness: a traditional BUY against a model SELL at confidence exactly
\* 80, which stands as TRADITIONAL
C2_Witness ==
    /\ Disagreement
    /\ TraditionalSignalOfCall = "BUY"
    /\ Val(fn_args.ml_prediction).signal = "SELL"
    /\ Val(fn_args.ml_prediction).confidence = 800
    /\ Returned.signal = "BUY"
    /\ Returned.source = "TRADITIONAL"

\* a full analysis (at least 20 candles) has just returned
Analyzed == result.op = "analyze" /\ result.received >= 20
SignalData == Val(result.signal_data)

\* C3 as stated: with no artifact in memory and none in storage, analyze on
\* at least 20 candles reports the traditional signal, the traditional
\* confidence (as an integer) and source TRADITIONAL, whatever the
\* traditional signal is.
C3_NoArtifactNoFusion ==
    (Analyzed /\ model = NoModel /\ disk = None) =>
        /\ result.report.signal = TraditionalSignal(SignalData.score)
        /\ IsNearestInteger(result.report.confidence,
                            TraditionalConfidence(SignalData.score,
                                                  SignalData.max_score))
        /\ result.report.signal_source = "TRADITIONAL"

\* the BUY/BUY call at model confidence 70 with the given traditional
\* confidence
LiteralCall(traditional_confidence) ==
    /\ Agreement
    /\ TraditionalSignalOfCall = "BUY"
    /\ Val(fn_args.ml_prediction).confidence = 700
    /\ RatEq(TraditionalConfidenceOfCall, Rat(traditional_confidence, 1))

\* C4 as stated: BUY/BUY at model confidence 70 gives 95 for traditional
\* confidence 60 and 65 for traditional confidence 40, both HYBRID_AGREEMENT.
C4_AsStated ==
    /\ LiteralCall(60) =>
          Returned.confidence = 95 /\ Returned.source = "HYBRID_AGREEMENT"
    /\ LiteralCall(40) =>
          Returned.confidence = 65 /\ Returned.source = "HYBRID_AGREEMENT"

\* C4 amended: BUY/BUY at model confidence 70 gives 75 (below the cap) for
\* traditional confidence 60 and 65 for traditional confidence 40, both
\* HYBRID_AGREEMENT.
C4_Literal ==
    /\ LiteralCall(60) =>
          Returned.confidence = 75 /\ Returned.source = "HYBRID_AGREEMENT"
    /\ LiteralCall(40) =>
          Returned.confidence = 65 /\ Returned.source = "HYBRID_AGREEMENT"

\* C4 witness: the call with traditional confidence 60 has returned
C4_Witness == LiteralCall(60) /\ Returned.signal = "BUY"

\* C5: analyze on fewer than 20 candles returns exactly the InsufficientData
\* fields (error, min_required = 20, received = the number of candles),
\* calls no indicator, feature or model operation, and leaves the model
\* service as it was.
C5_Step ==
    (result'.op = "analyze" /\ result'.received < 20) =>
        /\ result'.report = [error |-> "Insufficient data for analysis",
                             min_required |-> 20,
                             received |-> result'.received]
        /\ result'.signal_data = None
        /\ result'.calls = <<>>
        /\ UNCHANGED service_vars
C5_InsufficientData == [][C5_Step]_vars

\* C5 witness: analyze on 19 candles has returned the error result
C5_Witness ==
    /\ result.op = "analyze"
    /\ result.received = 19
    /\ result.report.received = 19

\* the ratio sub-term as the statement gives it
RatioTermAsStated(volume_ratio) ==
    IF volume_ratio > 200 THEN 2
    ELSE IF volume_ratio > 150 THEN 1
    ELSE IF volume_ratio < 70 THEN -1
    ELSE 0

\* C6 as stated: the adjustment is the clamped sum of the correlation and
\* OBV sub-terms and a ratio sub-term that is +2 above 2.0, +1 in (1.5, 2.0]
\* and -1 below 0.7.
C6_RatioTerm ==
    Called =>
        Returned =
            Max(-2, Min(2,
                RatioTermAsStated(fn_args.volume_data.volume_ratio)
                + VolumeCorrelationTerm(fn_args.volume_data,
                                        fn_args.price_trend)
                + VolumeObvTerm(fn_args.volume_data, fn_args.price_trend)))

\* the sum of the weights of the terms whose inputs are present
MaxScoreAsStated(a) ==
    (IF a.rsi # None THEN 2 ELSE 0)
    + (IF a.macd # None THEN 2 ELSE 0)
    + (IF a.sma_20 # None /\ a.sma_50 # None THEN 3 ELSE 0)
    + (IF a.sma_200 # None THEN 1 ELSE 0)
    + (IF a.bollinger # None THEN 1 ELSE 0)
    + (IF a.volume_data # None THEN 2 ELSE 0)

\* C7 as stated: max_possible_score is the sum of the weights of the terms
\* whose inputs are available; without a prediction the signal is BUY iff
\* score >= 3, SELL iff score <= -3, else HOLD, and the confidence is
\* |score| / max_possible_score * 100 (reported as an integer).
C7_Traditional ==
    Called =>
        LET m == MaxScoreAsStated(fn_args)
        IN  /\ Returned.max_score = m
            /\ (fn_args.ml_prediction = None /\ m > 0) =>
                  /\ Returned.signal =
                        (IF Returned.score >= 3 THEN "BUY"
                         ELSE IF Returned.score <= -3 THEN "SELL"
                         ELSE "HOLD")
                  /\ IsNearestInteger(Returned.confidence,
                                      Rat(Abs(Returned.score) * 100, m))

\* C8: every full report has signal in {BUY, HOLD, SELL}, signal_source in
\* {TRADITIONAL, HYBRID_AGREEMENT, ML_HIGH_CONFIDENCE}, confidence within
\* 0..100, and |score| <= max_possible_score.
C8_ReportRanges ==
    Analyzed =>
        /\ result.report.signal \in {"BUY", "HOLD", "SELL"}
        /\ result.report.signal_source \in
              {"TRADITIONAL", "HYBRID_AGREEMENT", "ML_HIGH_CONFIDENCE"}
        /\ result.report.confidence \in 0..100
        /\ Abs(SignalData.score) <= SignalData.max_score

\* C8 witness: a full report whose score reaches -max_possible_score and
\* whose confidence reaches 100
C8_Witness ==
    /\ Analyzed
    /\ SignalData.score = -SignalData.max_score
    /\ result.report.confidence = 100

\* the artifact of one completed training run
CompletedRun(a) ==
    \E d \in 1..MaxData :
        /\ a.model = Classifier(d, TRUE)
        /\ a.feature_names = ColumnsOf(d)
        /\ a.metrics = MetricsOf(d, TRUE)

\* C9 as stated: what predict can read (the fields in memory, or the stored
\* artifact when there is no classifier in memory) is always the artifact of
\* one completed training run.
C9_NoPartialArtifact ==
    /\ model # NoModel => CompletedRun(Live)
    /\ (model = NoModel /\ disk # None) => CompletedRun(Val(disk))

\* C10 as stated: when train has returned success, the fields in memory are
\* the artifact of that run and storage holds the same artifact.
C10_SuccessIsPersisted ==
    (result.op = "train" /\ result.success) =>
        /\ model = Classifier(result.data, TRUE)
        /\ feature_names = ColumnsOf(result.data)
        /\ metrics = MetricsOf(result.data, TRUE)
        /\ disk = Some(Live)

\* C11: a train call with fewer than 100 examples returns success = false
\* with the insufficient-data error, does not raise, and leaves the fields
\* in memory, the training history and the stored artifact as they were.
C11_Step ==
    (/\ result'.op = "train"
     /\ "examples" \in DOMAIN result'
     /\ result'.examples < 100) =>
        /\ ~result'.success
        /\ ~result'.raised
        /\ "error" \in DOMAIN result'
        /\ result'.error = "Insufficient training data"
        /\ UNCHANGED service_vars
C11_TooFewExamples == [][C11_Step]_vars

\* C11 witness: train on 99 examples has failed while a trained artifact is
\* in memory and in storage
C11_Witness ==
    /\ result.op = "train"
    /\ "examples" \in DOMAIN result
    /\ result.examples = 99
    /\ model # NoModel
    /\ disk # None

\* predict has returned what the classifier answered
AnsweredByClassifier ==
    /\ Called
    /\ ~Returned.raised
    /\ \/ fn_args.live.model # NoModel
       \/ load_model(fn_args.live, fn_args.blob).ok

\* C12 as stated: p > 0.6 gives BUY with confidence exactly 100p, p < 0.4
\* gives SELL with confidence exactly 100(1 - p), otherwise HOLD with
\* confidence 50; the source is ML.
C12_AsStated ==
    AnsweredByClassifier =>
        LET p == fn_args.buy_probability
            v == Returned.value
        IN  /\ v.source = "ML"
            /\ IF p > 6000
               THEN v.signal = "BUY" /\ v.confidence * 10 = p
               ELSE IF p < 4000
               THEN v.signal = "SELL" /\ v.confidence * 10 = 10000 - p
               ELSE v.signal = "HOLD" /\ v.confidence = 500

\* C12 amended: p > 0.6 gives BUY with confidence 100p rounded to one
\* decimal, p < 0.4 gives SELL with confidence 100(1 - p) rounded to one
\* decimal, otherwise (0.4 <= p <= 0.6) HOLD with confidence 50; the source
\* is ML.
C12_ProbabilityMapping ==
    AnsweredByClassifier =>
        LET p == fn_args.buy_probability
            v == Returned.value
        IN  /\ v.source = "ML"
            /\ IF p > 6000
               THEN /\ v.signal = "BUY"
                    /\ IsNearestInteger(v.confidence, Rat(p, 10))
               ELSE IF p < 4000
               THEN /\ v.signal = "SELL"
                    /\ IsNearestInteger(v.confidence, Rat(10000 - p, 10))
               ELSE v.signal = "HOLD" /\ v.confidence = 500

\* C12 witness: the classifier answered 0.6004, reported as BUY at 60.0
C12_Witness ==
    /\ AnsweredByClassifier
    /\ fn_args.buy_probability = 6004
    /\ Returned.value.signal = "BUY"
    /\ Returned.value.confidence = 600

\* predict was called with nothing in memory and nothing stored
CalledWithoutArtifact ==
    /\ Called
    /\ fn_args.live.model = NoModel
    /\ fn_args.blob = None

\* C13 as stated: with no artifact in memory or in storage, predict does not
\* raise, returns HOLD, confidence 50, probability 0.5 with source
\* NOT_TRAINED, and leaves the service fields unchanged.
C13_AsStated ==
    CalledWithoutArtifact =>
        /\ ~Returned.raised
        /\ Returned.value.signal = "HOLD"
        /\ Returned.value.confidence = 500
        /\ Returned.value.probability = 500
        /\ Returned.value.source = "NOT_TRAINED"
        /\ Returned.live = fn_args.live

\* C13 amended: the same, with source ML_NOT_TRAINED.
C13_SoftFailure ==
    CalledWithoutArtifact =>
        /\ ~Returned.raised
        /\ Returned.value.signal = "HOLD"
        /\ Returned.value.confidence = 500
        /\ Returned.value.probability = 500
        /\ Returned.value.source = "ML_NOT_TRAINED"
        /\ Returned.live = fn_args.live

\* C13 witness: predict on a full feature dict has returned with nothing in
\* memory and nothing stored
C13_Witness ==
    /\ CalledWithoutArtifact
    /\ fn_args.features = ExtractedFeatures
    /\ Returned.value.signal = "HOLD"

\* The fitted classifiers, and the ways they can answer: the class-1
\* probability predict_proba returns (line 148) is a function of the
\* classifier that is asked, so two predict calls get the same answer only
\* from the same classifier
FittedClassifiers == {Classifier(d, TRUE) : d \in 1..MaxData}
ClassifierBehaviours == [FittedClassifiers -> {3990, 5000, 6010}]

\* predict(features) on the fields `live` and the blob, when the classifiers
\* answer as `behaviour` says; the classifier asked is the one in memory
\* after predict's own load_model call (lines 134-135)
PredictWith(behaviour, features, live, blob) ==
    LET asked == IF live.model = NoModel THEN load_model(live, blob).live.model
                 ELSE live.model
    IN  predict(features,
                IF asked \in FittedClassifiers THEN behaviour[asked] ELSE 5000,
                live, blob)

\* a save_model call, on its own or at line 103 of train, has written the
\* file in this step
Saved ==
    \/ result'.op = "save" /\ result'.ok
    \/ train_pc = "save" /\ disk' = Some(Live)

\* C14: for every artifact, a save followed by a load (in a process that
\* holds nothing in memory) restores exactly the saved classifier, feature
\* names, hyperparameters and metrics, and predict then returns for every
\* feature dict what it returned before the save.
C14_Step ==
    Saved =>
        LET restored == load_model(EmptyLive, disk')
        IN  /\ restored.ok
            /\ restored.live = Live
            /\ \A features \in FeatureDicts, behaviour \in ClassifierBehaviours :
                  LET before == PredictWith(behaviour, features, Live, disk)
                      after == PredictWith(behaviour, features, restored.live,
                                           disk')
                  IN  /\ after.raised = before.raised
                      /\ after.value = before.value
C14_RoundTrip == [][C14_Step]_vars

\* C15 as stated: with nothing in memory and an artifact in storage, a
\* predict call, a get_metrics call and the status endpoint each load the
\* stored artifact before answering, so that the fields in memory are the
\* stored ones afterwards and the metrics answered are the stored metrics;
\* and loading again from unchanged storage changes nothing.
C15_LazyLoad ==
    /\ (/\ result.op \in {"predict", "get_metrics", "status"}
        /\ disk # None
        /\ DOMAIN Val(disk) = ArtifactKeys
        /\ Val(disk).metrics # NonDictMetrics
        /\ Val(disk).model # NoModel) =>
          /\ Live = Val(disk)
          /\ result.op \in {"get_metrics", "status"} =>
                /\ "value" \in DOMAIN result
                /\ result.value = Val(disk).metrics
    /\ (result.op = "load" /\ result.ok) =>
          load_model(Live, disk).live = Live

----------------------------------------------------------------------------
(* ml_training_data_service.py: the synthetic training data generator.     *)
(* One example is produced from one record of random draws.  RSI, MACD     *)
(* values, prices and volume_ratio are hundredths; the two SMA factors are *)
(* hundredths of the base price; price_vs_sma20 is an exact rational.  The *)
(* features that neither the labelling nor a derived feature reads         *)
(* (price changes, Bollinger values, volatility) are left out.             *)

\* lines 56-117: the feature dict computed from one record of draws
generate_random_features(draw) ==
    LET macd_histogram == draw.macd_line - draw.macd_signal
        sma_20 == (draw.base_price * draw.sma_20_factor) \div 100
        sma_50 == (draw.base_price * draw.sma_50_factor) \div 100
        current_price == draw.base_price
    IN  [rsi_14 |-> draw.rsi_14,
         macd_line |-> draw.macd_line,
         macd_signal |-> draw.macd_signal,
         macd_histogram |-> macd_histogram,
         macd_positive |-> IF macd_histogram > 0 THEN 1 ELSE 0,
         sma_20 |-> sma_20,
         sma_50 |-> sma_50,
         price_vs_sma20 |-> Rat((current_price - sma_20) * 100, sma_20),
         sma20_above_sma50 |-> IF sma_20 > sma_50 THEN 1 ELSE 0,
         volume_ratio |-> draw.volume_ratio,
         volume_confirmatory |-> draw.volume_confirmatory,
         volume_divergent |-> IF draw.divergent_roll
                              THEN 1 - draw.volume_confirmatory
                              ELSE 0,
         trend_bullish |-> IF draw.trend_choice = "bullish" THEN 1 ELSE 0,
         trend_bearish |-> IF draw.trend_choice = "bearish" THEN 1 ELSE 0,
         trend_strong |-> draw.trend_strong,
         higher_highs |-> draw.higher_highs,
         lower_lows |-> draw.lower_lows]

\* lines 128-131
LabelRsiTerm(features) ==
    IF features.rsi_14 < 3000 THEN 2
    ELSE IF features.rsi_14 > 7000 THEN -2
    ELSE 0

\* lines 134-137
LabelMacdTerm(features) ==
    IF features.macd_histogram > 0 THEN 2 ELSE -2

\* lines 140-143: the second test reads the flag, `not sma20_above_sma50`
LabelSmaTerm(features) ==
    IF features.price_vs_sma20.n > 0 /\ features.sma20_above_sma50 # 0
    THEN 2
    ELSE IF features.price_vs_sma20.n < 0 /\ features.sma20_above_sma50 = 0
    THEN -2
    ELSE 0

\* lines 146-149
LabelVolumeTerm(features) ==
    IF features.volume_ratio > 150 /\ features.volume_confirmatory # 0
    THEN 1
    ELSE IF features.volume_ratio < 70 \/ features.volume_divergent # 0
    THEN -1
    ELSE 0

\* lines 152-155
LabelTrendTerm(features) ==
    IF features.trend_bullish # 0 /\ features.trend_strong # 0 THEN 1
    ELSE IF features.trend_bearish # 0 /\ features.trend_strong # 0 THEN -1
    ELSE 0

\* lines 158-161: two separate ifs
LabelPatternTerm(features) ==
    (IF features.higher_highs # 0 THEN 1 ELSE 0)
    - (IF features.lower_lows # 0 THEN 1 ELSE 0)

\* lines 125-161
LabelScore(features) ==
    LabelRsiTerm(features) + LabelMacdTerm(features)
    + LabelSmaTerm(features) + LabelVolumeTerm(features)
    + LabelTrendTerm(features) + LabelPatternTerm(features)

\* a label that needs a score above 3 (mutation of LabelOfScore)
LabelOfScore_Above3(score) == IF score > 3 THEN 1 ELSE 0

\* line 164
LabelOfScore(score) == IF score >= 3 THEN 1 ELSE 0

\* lines 119-164
label_from_features(features) == LabelOfScore(LabelScore(features))

\* lines 32-40: one iteration of the loop
Example(draw) ==
    LET features == generate_random_features(draw)
    IN  [features |-> features, label |-> label_from_features(features)]

\* lines 30-40: training_data after the loop, one example per draw
TrainingData(draws) == [i \in 1..Len(draws) |-> Example(draws[i])]

\* a list comprehension `[d for d in data if d['label'] == label]`
RECURSIVE WithLabel(_, _)
WithLabel(data, label) ==
    IF data = <<>> THEN <<>>
    ELSE (IF Head(data).label = label THEN <<Head(data)>> ELSE <<>>)
         \o WithLabel(Tail(data), label)

\* a slice `s[:k]` with k >= 0
Take(s, k) == SubSeq(s, 1, Min(k, Len(s)))

\* a class size taken from the BUY class alone (mutation of MinClassSize)
MinClassSize_BuyOnly(buy_samples, not_buy_samples) == Len(buy_samples)

\* line 47
MinClassSize(buy_samples, not_buy_samples) ==
    Min(Len(buy_samples), Len(not_buy_samples))

\* lines 43-51: balanced_data before the shuffle
BalancedData(training_data) ==
    LET buy_samples == WithLabel(training_data, 1)
        not_buy_samples == WithLabel(training_data, 0)
        min_class_size == MinClassSize(buy_samples, not_buy_samples)
    IN  Take(buy_samples, min_class_size)
        \o Take(not_buy_samples, min_class_size)

\* line 53: the lists random.shuffle can leave behind
Shuffles(s) ==
    {[i \in 1..Len(s) |-> s[p[i]]] : p \in Permutations(1..Len(s))}

\* lines 28-54: the lists generate_synthetic_data can return for the draws
generate_synthetic_data(draws) == Shuffles(BalancedData(TrainingData(draws)))

(* The draws explored *)

LabelDraws ==
    [rsi_14 : {2999, 3000, 5000, 7000, 7001},
     macd_line : {-100, 100},
     macd_signal : {-100, 100},
     base_price : {200000},
     sma_20_factor : {97, 100, 103},
     sma_50_factor : {95, 103, 105},
     volume_ratio : {69, 70, 100, 150, 151},
     volume_confirmatory : {0, 1},
     divergent_roll : BOOLEAN,
     trend_choice : {"bullish", "bearish", "neutral"},
     trend_strong : {0, 1},
     higher_highs : {0, 1},
     lower_lows : {0, 1}]

\* a draw whose score is 2, and four variations of it
PlainDraw ==
    [rsi_14 |-> 5000, macd_line |-> 100, macd_signal |-> -100,
     base_price |-> 200000, sma_20_factor |-> 100, sma_50_factor |-> 95,
     volume_ratio |-> 100, volume_confirmatory |-> 0,
     divergent_roll |-> FALSE, trend_choice |-> "neutral",
     trend_strong |-> 0, higher_highs |-> 0, lower_lows |-> 0]
OversoldDraw == [PlainDraw EXCEPT !.rsi_14 = 2999]
BreakoutDraw == [OversoldDraw EXCEPT !.higher_highs = 1]
WeakDraw == [PlainDraw EXCEPT !.macd_line = -100, !.macd_signal = 100]
EqualSmaDraw ==
    [OversoldDraw EXCEPT !.sma_20_factor = 103, !.sma_50_factor = 103]

GenerateDraws ==
    {PlainDraw, OversoldDraw, BreakoutDraw, WeakDraw, EqualSmaDraw}

RECURSIVE SeqsUpTo(_, _)
SeqsUpTo(S, n) ==
    IF n = 0 THEN {<<>>}
    ELSE LET shorter == SeqsUpTo(S, n - 1)
         IN  shorter \cup {Append(s, x) : s \in shorter, x \in S}

TrainingArgs ==
    {[op |-> "label", features |-> generate_random_features(draw)] :
        draw \in LabelDraws}
    \cup {[op |-> "generate", draws |-> draws] :
             draws \in SeqsUpTo(GenerateDraws, MaxSamples)}

InitTraining ==
    /\ InitService
    /\ result = NoResult
    /\ fn_args \in TrainingArgs
    /\ fn_ret = None

CallLabelFromFeatures ==
    /\ fn_ret = None
    /\ fn_args.op = "label"
    /\ fn_ret' = Some(label_from_features(fn_args.features))
    /\ UNCHANGED <<service_vars, result, fn_args>>

CallGenerate ==
    /\ fn_ret = None
    /\ fn_args.op = "generate"
    /\ \E balanced_data \in generate_synthetic_data(fn_args.draws) :
          fn_ret' = Some(balanced_data)
    /\ UNCHANGED <<service_vars, result, fn_args>>

NextTraining == CallLabelFromFeatures \/ CallGenerate

SpecTraining == InitTraining /\ [][NextTraining]_vars

----------------------------------------------------------------------------
(* Properties of the generator *)

\* how often example e occurs in the list s
Occurrences(s, e) == Cardinality({i \in 1..Len(s) : s[i] = e})

Generated == fn_ret # None /\ fn_args.op = "generate"

\* C16: for every number of draws and every outcome of them, the returned
\* list has as many label-0 as label-1 examples, its length is twice the
\* smaller of the two class counts among the drawn examples and at most the
\* number of draws, and every returned example is one of the drawn examples
\* with the label it was given (no example is returned more often than it
\* was drawn).
C16_Balanced ==
    Generated =>
        LET drawn == TrainingData(fn_args.draws)
            returned == Val(fn_ret)
            ones == Cardinality({i \in 1..Len(drawn) : drawn[i].label = 1})
            zeros == Cardinality({i \in 1..Len(drawn) : drawn[i].label = 0})
        IN  /\ Cardinality({i \in 1..Len(returned) : returned[i].label = 1})
               = Cardinality({i \in 1..Len(returned) : returned[i].label = 0})
            /\ Len(returned) = 2 * Min(zeros, ones)
            /\ Len(returned) <= Len(fn_args.draws)
            /\ \A i \in 1..Len(returned) :
                  /\ returned[i].label \in {0, 1}
                  /\ Occurrences(returned, returned[i])
                     <= Occurrences(drawn, returned[i])

\* C16 witness: three draws with more BUY than NOT BUY examples were cut
\* down to a balanced list of two
C16_Witness ==
    /\ Generated
    /\ Len(fn_args.draws) = 3
    /\ Len(WithLabel(TrainingData(fn_args.draws), 1)) = 2
    /\ Len(Val(fn_ret)) = 2

Labelled == fn_ret # None /\ fn_args.op = "label"

\* the scoring rule in words, over the feature values; sma_down is the
\* reading of "SMA20 below SMA50" used by the moving-average term
RuleScore(features, sma_down) ==
    (IF features.rsi_14 < 3000 THEN 2
     ELSE IF features.rsi_14 > 7000 THEN -2 ELSE 0)
    + (IF features.macd_histogram > 0 THEN 2 ELSE -2)
    + (IF features.price_vs_sma20.n > 0 /\ features.sma_20 > features.sma_50
       THEN 2
       ELSE IF features.price_vs_sma20.n < 0 /\ sma_down THEN -2 ELSE 0)
    + (IF features.volume_ratio > 150 /\ features.volume_confirmatory = 1
       THEN 1
       ELSE IF features.volume_ratio < 70 \/ features.volume_divergent = 1
       THEN -1 ELSE 0)
    + (IF features.trend_bullish = 1 /\ features.trend_strong = 1 THEN 1
       ELSE IF features.trend_bearish = 1 /\ features.trend_strong = 1
       THEN -1 ELSE 0)
    + (IF features.higher_highs = 1 THEN 1 ELSE 0)
    + (IF features.lower_lows = 1 THEN -1 ELSE 0)

RuleLabel(features, sma_down) ==
    IF RuleScore(features, sma_down) >= 3 THEN 1 ELSE 0

\* the rule with 2 subtracted only when SMA20 is strictly below SMA50
StrictRule(features) ==
    RuleLabel(features, features.sma_20 < features.sma_50)

\* the rule with 2 subtracted whenever SMA20 is not above SMA50
FlagRule(features) ==
    RuleLabel(features, features.sma_20 <= features.sma_50)

\* C17 as stated: the label is 1 exactly when the score reaches 3, where
\* the moving-average term subtracts 2 for price < SMA20 and SMA20 < SMA50;
\* this holds of the labelling function and of every example generate
\* returns.
C17_AsStated ==
    /\ Labelled => Val(fn_ret) = StrictRule(fn_args.features)
    /\ Generated =>
          \A i \in 1..Len(Val(fn_ret)) :
             Val(fn_ret)[i].label = StrictRule(Val(fn_ret)[i].features)

\* C17: the label is 1 exactly when the score reaches 3, where RSI < 30
\* adds 2 and RSI > 70 subtracts 2, a positive MACD histogram adds 2 and any
\* other subtracts 2, price > SMA20 with SMA20 > SMA50 adds 2 and
\* price < SMA20 with SMA20 not above SMA50 (equal included) subtracts 2,
\* volume_ratio > 1.5 with confirmatory volume adds 1 and otherwise
\* volume_ratio < 0.7 or divergent volume subtracts 1, a strong bullish
\* trend adds 1 and a strong bearish one subtracts 1, higher highs add 1 and
\* lower lows subtract 1; this holds of the labelling function and of every
\* example generate returns.
C17_LabelRule ==
    /\ Labelled => Val(fn_ret) = FlagRule(fn_args.features)
    /\ Generated =>
          \A i \in 1..Len(Val(fn_ret)) :
             Val(fn_ret)[i].label = FlagRule(Val(fn_ret)[i].features)

\* C17 witness: a feature dict with the price below SMA20 and SMA20 equal to
\* SMA50 was labelled 0 where the strict reading gives 1
C17_Witness ==
    /\ Labelled
    /\ fn_args.features.price_vs_sma20.n < 0
    /\ fn_args.features.sma_20 = fn_args.features.sma_50
    /\ Val(fn_ret) = 0
    /\ StrictRule(fn_args.features) = 1

----------------------------------------------------------------------------
(* The indicators and extract_features on their own *)

IndicatorSequences == CandleSequences \cup BoundarySequences

IndicatorArgs ==
    [fn : {"calculate_rsi"}, candles : IndicatorSequences, period : {7, 14}]
    \cup [fn : {"calculate_sma"}, candles : IndicatorSequences,
          period : {20, 50, 200}]
    \cup [fn : {"calculate_ema"}, candles : IndicatorSequences,
          period : {12, 26}]
    \cup [fn : {"calculate_macd", "extract_features",
                "calculate_performance_metrics"},
          candles : IndicatorSequences, period : {0}]
    \cup [fn : {"calculate_bollinger_bands"}, candles : IndicatorSequences,
          period : {20}]

InitIndicators ==
    /\ InitService
    /\ result = NoResult
    /\ fn_args \in IndicatorArgs
    /\ fn_ret = None

\* the outcome of a call that returned `value`
Returns(value) == [raised |-> FALSE, value |-> value]

CallRsi ==
    /\ fn_ret = None
    /\ fn_args.fn = "calculate_rsi"
    /\ fn_ret' = Some(Returns(calculate_rsi(fn_args.candles, fn_args.period)))
    /\ UNCHANGED <<service_vars, result, fn_args>>

CallSma ==
    /\ fn_ret = None
    /\ fn_args.fn = "calculate_sma"
    /\ fn_ret' = Some(Returns(calculate_sma(fn_args.candles, fn_args.period)))
    /\ UNCHANGED <<service_vars, result, fn_args>>

CallEma ==
    /\ fn_ret = None
    /\ fn_args.fn = "calculate_ema"
    /\ fn_ret' = Some(Returns(calculate_ema(fn_args.candles, fn_args.period)))
    /\ UNCHANGED <<service_vars, result, fn_args>>

CallMacd ==
    /\ fn_ret = None
    /\ fn_args.fn = "calculate_macd"
    /\ fn_ret' = Some(Returns(calculate_macd(fn_args.candles)))
    /\ UNCHANGED <<service_vars, result, fn_args>>

CallBollinger ==
    /\ fn_ret = None
    /\ fn_args.fn = "calculate_bollinger_bands"
    /\ fn_ret' = Some(Returns(calculate_bollinger_bands(fn_args.candles)))
    /\ UNCHANGED <<service_vars, result, fn_args>>

CallExtract ==
    /\ fn_ret = None
    /\ fn_args.fn = "extract_features"
    /\ fn_ret' = Some(extract_features(fn_args.candles))
    /\ UNCHANGED <<service_vars, result, fn_args>>

CallPerformance ==
    /\ fn_ret = None
    /\ fn_args.fn = "calculate_performance_metrics"
    /\ fn_ret' = Some(Returns(calculate_performance_metrics(fn_args.candles)))
    /\ UNCHANGED <<service_vars, result, fn_args>>

NextIndicators ==
    \/ CallPerformance
    \/ CallRsi
    \/ CallSma
    \/ CallEma
    \/ CallMacd
    \/ CallBollinger
    \/ CallExtract

SpecIndicators == InitIndicators /\ [][NextIndicators]_vars

(* detect_trend on its own *)

PriceLists ==
    {<<>>} \cup {<<p>> : p \in 1..MaxPrice}
    \cup {<<p, q>> : p \in 1..MaxPrice, q \in 1..MaxPrice}

\* symbol_analytics_service lines 76-77: the arguments analyze_symbol calls
\* detect_trend with, an absent SMA replaced by the current price
AnalyzeTrendArgs ==
    {[prices |-> <<c.close>>,
      sma_20 |-> OrElse(calculate_sma(c, 20), c.close),
      sma_50 |-> OrElse(calculate_sma(c, 50), c.close),
      sma_200 |-> calculate_sma(c, 200)] :
        c \in {q \in CandleSequences : ~TooFewCandles(q)}}

TrendArgs ==
    [prices : PriceLists, sma_20 : 1..MaxPrice, sma_50 : 1..MaxPrice,
     sma_200 : {None} \cup {Some(v) : v \in 1..MaxPrice}]
    \cup AnalyzeTrendArgs

InitTrend ==
    /\ InitService
    /\ result = NoResult
    /\ fn_args \in TrendArgs
    /\ fn_ret = None

CallDetectTrend ==
    /\ fn_ret = None
    /\ fn_ret' = Some(detect_trend(fn_args.prices, fn_args.sma_20,
                                   fn_args.sma_50, fn_args.sma_200))
    /\ UNCHANGED <<service_vars, result, fn_args>>

SpecTrend == InitTrend /\ [][CallDetectTrend]_vars

----------------------------------------------------------------------------
(* Properties of the indicators *)

IndicatorReturned(fn) == fn_ret # None /\ fn_args.fn = fn

\* C18 as stated: on every sequence of at least 20 candles with positive
\* prices, flat ones and ones too short for SMA50, SMA200 or MACD included,
\* extract_features returns without raising a dict whose keys are exactly
\* the names get_feature_names lists, each with a concrete number.
C18_FixedSchema ==
    (IndicatorReturned("extract_features") /\ fn_args.candles.len >= 20) =>
        /\ ~Val(fn_ret).raised
        /\ DOMAIN Val(fn_ret).value = Range(get_feature_names)
        /\ \A name \in DOMAIN Val(fn_ret).value :
              Val(fn_ret).value[name].d > 0

\* C19: below its minimum length every indicator returns None without
\* raising (RSI below period + 1 prices, SMA and EMA below period prices,
\* MACD below 26, Bollinger Bands below their period of 20), and
\* extract_features below 20 candles returns the empty dict.
C19_BelowMinimum ==
    /\ (IndicatorReturned("calculate_rsi")
        /\ fn_args.candles.len < fn_args.period + 1) =>
          Val(fn_ret) = Returns(None)
    /\ (IndicatorReturned("calculate_sma")
        /\ fn_args.candles.len < fn_args.period) =>
          Val(fn_ret) = Returns(None)
    /\ (IndicatorReturned("calculate_ema")
        /\ fn_args.candles.len < fn_args.period) =>
          Val(fn_ret) = Returns(None)
    /\ (IndicatorReturned("calculate_macd") /\ fn_args.candles.len < 26) =>
          Val(fn_ret) = Returns(None)
    /\ (IndicatorReturned("calculate_bollinger_bands")
        /\ fn_args.candles.len < fn_args.period) =>
          Val(fn_ret) = Returns(None)
    /\ (IndicatorReturned("extract_features") /\ fn_args.candles.len < 20) =>
          /\ ~Val(fn_ret).raised
          /\ DOMAIN Val(fn_ret).value = {}

\* C19 witness: SMA(50) was asked of 49 prices and answered None
C19_Witness ==
    /\ IndicatorReturned("calculate_sma")
    /\ fn_args.period = 50
    /\ fn_args.candles.len = 49
    /\ Val(fn_ret).value = None

TrendReturned == fn_ret # None /\ fn_args.prices # <<>>

\* +1 for a comparison that holds, -1 for one that does not
Signed(b) == IF b THEN 1 ELSE -1

\* the score in words, for the last price of the list
StatedTrendScore ==
    LET price == fn_args.prices[Len(fn_args.prices)]
    IN  Signed(price > fn_args.sma_20) + Signed(price > fn_args.sma_50)
        + Signed(fn_args.sma_20 > fn_args.sma_50)
        + (IF fn_args.sma_200 = None THEN 0
           ELSE Signed(price > Val(fn_args.sma_200))
                + Signed(fn_args.sma_50 > Val(fn_args.sma_200)))

\* C20: for a non-empty price list the trend follows the sum of the signed
\* comparisons price > sma20, price > sma50, sma20 > sma50 and, when sma200
\* is given, price > sma200 and sma50 > sma200: BULLISH/STRONG from 3,
\* BULLISH/MODERATE from 1, BEARISH/STRONG down from -3, BEARISH/MODERATE
\* down from -1, NEUTRAL/WEAK at 0.
C20_TrendDetection ==
    TrendReturned =>
        Val(fn_ret) =
            IF StatedTrendScore >= 3
            THEN [trend |-> "BULLISH", strength |-> "STRONG"]
            ELSE IF StatedTrendScore >= 1
            THEN [trend |-> "BULLISH", strength |-> "MODERATE"]
            ELSE IF StatedTrendScore <= -3
            THEN [trend |-> "BEARISH", strength |-> "STRONG"]
            ELSE IF StatedTrendScore <= -1
            THEN [trend |-> "BEARISH", strength |-> "MODERATE"]
            ELSE [trend |-> "NEUTRAL", strength |-> "WEAK"]

\* C20 witness: with sma200 given, four comparisons held and one did not,
\* and the trend returned is BULLISH/STRONG
C20_Witness ==
    /\ TrendReturned
    /\ fn_args.sma_200 # None
    /\ StatedTrendScore = 3
    /\ Val(fn_ret) = [trend |-> "BULLISH", strength |-> "STRONG"]

----------------------------------------------------------------------------
(* technical_indicators.calculate_rsi on a list of prices.  Prices are     *)
(* whole numbers here and the RSI is in hundredths.  The period divides    *)
(* both averages and cancels in their quotient, so                         *)
(* 100 - 100 / (1 + rs) is 100 * gain / (gain + loss) for the two sums.    *)

\* line 24: deltas
Deltas(prices) == [i \in 1..(Len(prices) - 1) |-> prices[i + 1] - prices[i]]

\* `s[-k:]` for a list of at least k elements
LastOf(s, k) == SubSeq(s, Len(s) - k + 1, Len(s))

RECURSIVE SumSeq(_)
SumSeq(s) == IF s = <<>> THEN 0 ELSE Head(s) + SumSeq(Tail(s))

\* lines 27 and 31: sum(gains[-period:])
GainSum(prices, period) ==
    LET deltas == LastOf(Deltas(prices), period)
    IN  SumSeq([i \in 1..period |-> IF deltas[i] > 0 THEN deltas[i] ELSE 0])

\* lines 28 and 32: sum(losses[-period:])
LossSum(prices, period) ==
    LET deltas == LastOf(Deltas(prices), period)
    IN  SumSeq([i \in 1..period |-> IF deltas[i] < 0 THEN -deltas[i] ELSE 0])

\* an RSI that is 0 whenever nothing was lost (mutation of RsiOfSums)
RsiOfSums_ZeroWithoutLoss(gain, loss) ==
    IF loss = 0 THEN 0 ELSE PyRound0(Rat(10000 * gain, gain + loss))

\* lines 35-41: 100.0 when avg_loss == 0, else round(rsi, 2)
RsiOfSums(gain, loss) ==
    IF loss = 0 THEN 10000 ELSE PyRound0(Rat(10000 * gain, gain + loss))

\* lines 9-41: calculate_rsi(prices, period)
rsi_of_prices(prices, period) ==
    IF Len(prices) < period + 1 THEN None
    ELSE Some(RsiOfSums(GainSum(prices, period), LossSum(prices, period)))

RECURSIVE ListsUpTo(_, _)
ListsUpTo(S, n) ==
    IF n = 0 THEN {<<>>}
    ELSE LET shorter == ListsUpTo(S, n - 1)
         IN  shorter \cup {Append(s, x) : s \in shorter, x \in S}

RsiArgs ==
    [prices : ListsUpTo(1..MaxPrice, MaxPrices), period : 1..(MaxPrices - 1)]

InitRsi ==
    /\ InitService
    /\ result = NoResult
    /\ fn_args \in RsiArgs
    /\ fn_ret = None

CallRsiOfPrices ==
    /\ fn_ret = None
    /\ fn_ret' = Some(rsi_of_prices(fn_args.prices, fn_args.period))
    /\ UNCHANGED <<service_vars, result, fn_args>>

SpecRsi == InitRsi /\ [][CallRsiOfPrices]_vars

(* Properties of the RSI *)

RsiComputed == fn_ret # None /\ Len(fn_args.prices) >= fn_args.period + 1

\* the last `period` price changes
LastChanges == LastOf(Deltas(fn_args.prices), fn_args.period)

\* C21: for a price list of at least period + 1 prices the RSI lies in
\* [0, 100]; it is 100 when none of the last `period` changes is a fall, and
\* 0 when none of them is a rise and at least one is a fall.
C21_RsiRange ==
    RsiComputed =>
        /\ Val(fn_ret) # None
        /\ Val(Val(fn_ret)) >= 0
        /\ Val(Val(fn_ret)) <= 10000
        /\ (\A i \in 1..fn_args.period : LastChanges[i] >= 0) =>
              Val(Val(fn_ret)) = 10000
        /\ ((\A i \in 1..fn_args.period : LastChanges[i] <= 0)
            /\ (\E i \in 1..fn_args.period : LastChanges[i] < 0)) =>
              Val(Val(fn_ret)) = 0

\* C21 witness: a strictly falling list of three prices has an RSI(2) of 0
C21_Witness ==
    /\ RsiComputed
    /\ fn_args.period = 2
    /\ Len(fn_args.prices) = 3
    /\ fn_args.prices[1] > fn_args.prices[2]
    /\ fn_args.prices[2] > fn_args.prices[3]
    /\ Val(Val(fn_ret)) = 0

----------------------------------------------------------------------------
(* Properties of the returns *)

\* the percentage change of the latest close over the close n candles
\* before the latest candle, rounded to two decimals (hundredths)
ChangeOver(candles, n) ==
    LET latest == CloseAt(candles, candles.len)
        earlier == CloseAt(candles, candles.len - n)
    IN  RoundSigned((latest - earlier) * 10000, earlier)

\* C22 as stated: every return that calculate_performance_metrics reports,
\* for N = 5, 20, 60, 120 and 250, is the percentage change from the close
\* N candles before the latest candle to the latest close.
C22_ReturnOverN ==
    IndicatorReturned("calculate_performance_metrics") =>
        \A label \in ReturnLabels \cap DOMAIN Val(fn_ret).value :
            Val(fn_ret).value[label]
            = ChangeOver(fn_args.candles, DaysAgo(label))

\* the name of the momentum feature over n candles
MomentumFeature(n) ==
    CASE n = 1 -> "price_change_1d"
      [] n = 5 -> "price_change_5d"
      [] n = 10 -> "price_change_10d"
      [] n = 20 -> "price_change_20d"

\* C23 as stated: on at least 21 candles each momentum feature, for N = 1,
\* 5, 10 and 20, is the percentage return of the latest close over the
\* close N candles earlier; price_change_1d in particular is not 0 when the
\* last two closes differ.
C23_Momentum ==
    (/\ IndicatorReturned("extract_features")
     /\ fn_args.candles.len >= 21
     /\ ~Val(fn_ret).raised) =>
        LET candles == fn_args.candles
            latest == CloseAt(candles, candles.len)
        IN  /\ \A n \in {1, 5, 10, 20} :
                  RatEq(Val(fn_ret).value[MomentumFeature(n)],
                        Rat((latest - CloseAt(candles, candles.len - n)) * 100,
                            CloseAt(candles, candles.len - n)))
            /\ latest # CloseAt(candles, candles.len - 1) =>
                  Val(fn_ret).value["price_change_1d"].n # 0

----------------------------------------------------------------------------
(* Properties of the model service over any sequence of calls *)

\* C24 as stated: whatever train, save, load and predict calls have been
\* completed before, predict does not raise and answers either with source
\* "ML" from a fitted classifier or with the soft failure HOLD/50/0.5, and
\* load does not report success while the classifier in memory is absent.
C24_PredictNeverRaises ==
    /\ (result.op = "predict" /\ train_pc = "idle") =>
          /\ ~result.raised
          /\ \/ /\ result.value.source = "ML"
                /\ model # NoModel
                /\ model.fitted
             \/ /\ result.value.signal = "HOLD"
                /\ result.value.confidence = 500
                /\ result.value.probability = 500
    /\ (result.op = "load" /\ result.ok) => model # NoModel

----------------------------------------------------------------------------
(* Properties of the RSI term *)

\* what _generate_signal returns for the same call without an RSI
ReturnedWithoutRsi ==
    generate_signal(fn_args.current_price, None, fn_args.macd,
                    fn_args.sma_20, fn_args.sma_50, fn_args.sma_200,
                    fn_args.bollinger, fn_args.trend, fn_args.volume_data,
                    fn_args.ml_prediction)

\* C25 as stated: whenever an RSI is passed, 0 included, its weight 2 is
\* part of max_possible_score and the score gains 2 for an RSI below 30,
\* loses 2 for one above 70 and is unchanged in between.
C25_RsiTermApplied ==
    (Called /\ fn_args.rsi # None) =>
        /\ Returned.max_score = ReturnedWithoutRsi.max_score + 2
        /\ Returned.score =
              ReturnedWithoutRsi.score
              + (IF Val(fn_args.rsi) < 3000 THEN 2
                 ELSE IF Val(fn_args.rsi) > 7000 THEN -2
                 ELSE 0)

\* predict, called now on the features of a sequence that extraction accepts,
\* raises
PredictWouldRaise ==
    predict(Range(get_feature_names), 5000, Live, disk).raised

\* the fields of a full report
ReportFields ==
    {"signal", "confidence", "trend", "strength", "current_price",
     "indicators", "volume", "levels", "performance", "summary",
     "ml_prediction", "signal_source"}

\* C26: when feature extraction or model prediction raises during analyze on
\* at least 20 candles, analyze still returns a complete report with
\* ml_prediction = null, the traditional signal and confidence, and
\* signal_source = "TRADITIONAL", and the model artifact (in memory and
\* stored) is left unchanged.
C26_Step ==
    (/\ ml_enabled
     /\ result'.op = "analyze"
     /\ result'.received >= 20
     /\ \/ result'.calls = <<"indicators", "extract_features">>
        \/ PredictWouldRaise) =>
        /\ DOMAIN result'.report = ReportFields
        /\ result'.report.ml_prediction = None
        /\ result'.report.signal =
              TraditionalSignal(Val(result'.signal_data).score)
        /\ IsNearestInteger(
              result'.report.confidence,
              TraditionalConfidence(Val(result'.signal_data).score,
                                    Val(result'.signal_data).max_score))
        /\ result'.report.signal_source = "TRADITIONAL"
        /\ UNCHANGED <<model, feature_names, params, metrics, disk>>
C26_NoPropagation == [][C26_Step]_vars

----------------------------------------------------------------------------
(* The schema shared by the generator, the extractor and the model: train
   records the columns of its training frame, and predict selects exactly
   those columns from the dict it is given. *)

\* a generator that also writes a price_change_3d key (mutation of
\* generated_feature_names)
generated_feature_names_ExtraKey ==
    <<"price_change_1d", "price_change_3d", "price_change_5d",
      "price_change_10d", "price_change_20d", "rsi_14", "rsi_7", "rsi_diff",
      "macd_line", "macd_signal", "macd_histogram", "macd_positive",
      "sma_20", "sma_50", "sma_200", "price_vs_sma20", "price_vs_sma50",
      "price_vs_sma200", "sma20_above_sma50", "sma50_above_sma200",
      "bb_width", "bb_position", "bb_squeeze", "volume_ratio",
      "volume_trend_inc", "volume_trend_dec", "volume_confirmatory",
      "volume_divergent", "volatility_20d", "hl_range", "trend_bullish",
      "trend_bearish", "trend_strong", "higher_highs", "lower_lows">>

\* ml_training_data_service lines 56-117: the keys _generate_random_features
\* assigns, in the order it assigns them
generated_feature_names ==
    <<"price_change_1d", "price_change_5d", "price_change_10d",
      "price_change_20d", "rsi_14", "rsi_7", "rsi_diff", "macd_line",
      "macd_signal", "macd_histogram", "macd_positive", "sma_20", "sma_50",
      "sma_200", "price_vs_sma20", "price_vs_sma50", "price_vs_sma200",
      "sma20_above_sma50", "sma50_above_sma200", "bb_width", "bb_position",
      "bb_squeeze", "volume_ratio", "volume_trend_inc", "volume_trend_dec",
      "volume_confirmatory", "volume_divergent", "volatility_20d",
      "hl_range", "trend_bullish", "trend_bearish", "trend_strong",
      "higher_highs", "lower_lows">>

\* ml_model_service lines 54-58: the columns of the frame built from the
\* examples' feature dicts, which train stores as feature_names
TrainedFeatureNames(first_keys) == first_keys

\* line 145: pd.DataFrame([features])[self.feature_names]; a missing name
\* raises KeyError, otherwise the frame has the named columns in that order
Reorder(features, fnames) ==
    IF ReorderRaises(DOMAIN features, fnames)
    THEN [raised |-> TRUE, columns |-> <<>>, row |-> <<>>]
    ELSE [raised |-> FALSE, columns |-> fnames,
          row |-> [i \in 1..Len(fnames) |-> features[fnames[i]]]]

SchemaArgs == [candles : IndicatorSequences]

InitSchema ==
    /\ InitService
    /\ result = NoResult
    /\ fn_args \in SchemaArgs
    /\ fn_ret = None

\* extract_features on the candles, then the column selection of a predict
\* whose model was trained on generator output
CallReorder ==
    /\ fn_ret = None
    /\ LET extracted == extract_features(fn_args.candles)
       IN  fn_ret' =
              Some(IF extracted.raised
                   THEN [raised |-> TRUE, columns |-> <<>>, row |-> <<>>]
                   ELSE Reorder(extracted.value,
                                TrainedFeatureNames(generated_feature_names)))
    /\ UNCHANGED <<service_vars, result, fn_args>>

SpecSchema == InitSchema /\ [][CallReorder]_vars

\* extraction on the candles of the call produced a feature vector
VectorExtracted ==
    /\ Called
    /\ fn_args.candles.len >= 20
    /\ ~ExtractRaises(fn_args.candles)

\* C27: the generator, extract and get_feature_names produce the same set of
\* feature names, so for a model trained on generator output the reordering
\* in predict finds every name in any extracted feature vector and passes
\* the classifier exactly the trained columns, in the trained order, with the
\* extracted values.
C27_SchemaConsistency ==
    /\ Range(generated_feature_names) = Range(get_feature_names)
    /\ VectorExtracted =>
          /\ DOMAIN FeaturesOf(fn_args.candles) =
                Range(generated_feature_names)
          /\ ~Returned.raised
          /\ Returned.columns = generated_feature_names
          /\ \A i \in 1..Len(Returned.columns) :
                Returned.row[i] =
                    FeaturesOf(fn_args.candles)[generated_feature_names[i]]

\* C27 witness: the columns of a vector extracted from at least 20 candles
\* have been selected for a model trained on generator output
C27_Witness ==
    /\ VectorExtracted
    /\ ~Returned.raised
    /\ Len(Returned.columns) = 34
    /\ Returned.columns[34] = "lower_lows"

\* with these in-memory fields and this stored blob the classifier is fitted
\* and predict on an extracted feature vector returns source ML
PredictsFromModel(m, fnames, prm, mtr, blob) ==
    LET r == predict(ExtractedFeatures, 5000, Artifact(m, fnames, prm, mtr),
                     blob)
    IN  /\ m # NoModel
        /\ m.fitted
        /\ ~r.raised
        /\ r.value.source = "ML"

\* an artifact is live: predict has returned, or would return, source ML
ArtifactLive == PredictsFromModel(model, feature_names, params, metrics, disk)

\* C28: once an artifact is live (predict returns source ML), no predict,
\* load, save or failing train (fewer than 100 examples) call clears it:
\* after the call the artifact is still a trained one, predict still answers
\* from it, and no predict returns the NOT_TRAINED result.
C28_Step ==
    (/\ ArtifactLive
     /\ train_pc = "idle"
     /\ \/ result'.op \in {"predict", "load", "save"}
        \/ /\ result'.op = "train"
           /\ "examples" \in DOMAIN result'
           /\ result'.examples < 100) =>
        /\ PredictsFromModel(model', feature_names', params', metrics', disk')
        /\ ~(/\ result'.op = "predict"
             /\ ~result'.raised
             /\ result'.value.source = "ML_NOT_TRAINED")
C28_ArtifactNeverCleared == [][C28_Step]_vars

\* the last price of the call equals both averages, and sma200 if given
EqualOperands ==
    LET price == fn_args.prices[Len(fn_args.prices)]
    IN  /\ price = fn_args.sma_20
        /\ price = fn_args.sma_50
        /\ fn_args.sma_200 # None => price = Val(fn_args.sma_200)

\* C29: for a non-empty price list the score of detect_trend is odd (three
\* terms of +1 or -1, five when sma200 is given), so the result is never
\* NEUTRAL/WEAK and the trend is BULLISH or BEARISH, also for the arguments
\* analyze passes; a comparison of equal operands counts -1, so equal
\* operands throughout give BEARISH/STRONG.
C29_TrendNeverNeutral ==
    TrendReturned =>
        /\ TrendScore(fn_args.prices[Len(fn_args.prices)], fn_args.sma_20,
                      fn_args.sma_50, fn_args.sma_200) % 2 = 1
        /\ Val(fn_ret).trend \in {"BULLISH", "BEARISH"}
        /\ Val(fn_ret).strength \in {"STRONG", "MODERATE"}
        /\ EqualOperands =>
              Val(fn_ret) = [trend |-> "BEARISH", strength |-> "STRONG"]

\* C29 witness: detect_trend has returned BEARISH/STRONG on the arguments
\* analyze passes for a sequence too short for SMA50, whose place the current
\* price takes
C29_Witness ==
    /\ TrendReturned
    /\ fn_args \in AnalyzeTrendArgs
    /\ fn_args.sma_50 = fn_args.prices[1]
    /\ EqualOperands
    /\ Val(fn_ret) = [trend |-> "BEARISH", strength |-> "STRONG"]

\* the trend of every full report is BULLISH or BEARISH
ReportTrendDirected ==
    Analyzed => result.report.trend \in {"BULLISH", "BEARISH"}

\* the prediction of the report
ReportedPrediction == Val(result.report.ml_prediction)

\* C30: whenever analyze reports signal_source = "ML_HIGH_CONFIDENCE", the
\* final signal is the model's BUY or SELL, never HOLD, and differs from the
\* traditional signal; a model HOLD in a report always carries confidence 50
\* and so cannot pass the > 80 threshold.
C30_OverrideIsDirected ==
    Analyzed =>
        /\ (/\ result.report.ml_prediction # None
            /\ ReportedPrediction.signal = "HOLD") =>
              ReportedPrediction.confidence = 500
        /\ result.report.signal_source = "ML_HIGH_CONFIDENCE" =>
              /\ result.report.signal \in {"BUY", "SELL"}
              /\ result.report.signal # TraditionalSignal(SignalData.score)
              /\ result.report.ml_prediction # None
              /\ result.report.signal = ReportedPrediction.signal
              /\ ReportedPrediction.confidence > 800

\* C30 witness: a report with source ML_HIGH_CONFIDENCE in which the model's
\* SELL replaced a traditional BUY
C30_Witness ==
    /\ Analyzed
    /\ result.report.signal_source = "ML_HIGH_CONFIDENCE"
    /\ result.report.signal = "SELL"
    /\ TraditionalSignal(SignalData.score) = "BUY"

====
